---- MODULE Spec2Model ----
(***************************************************************************)
(* Order adjustment engine of the open-order view.                         *)
(*                                                                         *)
(* OpenOrder (parent list view) holds the fetched order list, the selected *)
(* order and the loader/error flags; OpenOrderBottomWindow (child) holds   *)
(* the form inputs and the in-flight flag `submitting`, and runs the two   *)
(* asynchronous handlers handleAction and handlePriceSave.                 *)
(*                                                                         *)
(* Units: prices and money are integers in paise (0.01 rupee); the close   *)
(* price closed_ltp is in units of 0.0001 rupee; jobbin_price is in units  *)
(* of 0.01 percent.  A blank form input and the number 0 are the same      *)
(* value where the code treats them alike (Number('') || 0).               *)
(***************************************************************************)
EXTENDS Integers, Sequences, FiniteSets, TLC

\* ---------------------------------------------------------------- bounds
\* clicks on an action button explored with the full input sets
FormAttempts == 1
\* clicks explored across window instances, with the reduced input sets
MaxAttempts == 2
\* parameter changes and connection changes of the option-chain view
MaxViewChanges == 3
\* changes of the order list's instrumentData
MaxListChanges == 3
\* latest frame time explored, in milliseconds
MaxClock == 440

\* ------------------------------------------------------- input domains
OrderIds == {1, 2}
LtpVals == {0, 11, 12}
LevelVals == {-1, 0, 11}
\* contents of a text field: empty, not a number, or the decimal numeral of n
Blank == <<"blank", 0>>
NotANumber == <<"nan", 0>>
Num(n) == <<"num", n>>
\* a number field's numeral without integer part, such as ".5"
Fraction == <<"fraction", 5>>
\* contents of the Add Lot field, an <input type="number">
AddLotVals == {Blank, Num(-1), Num(1), Fraction}
\* the form inputs <<slPrice, targetPrice, addLotInput>> of a click
FormInputs ==
    {<<sl, tgt, add>> \in LevelVals \X LevelVals \X AddLotVals : sl = 0 \/ tgt = 0 \/ sl = tgt}
\* reduced input sets
\* form contents an EXIT or HOLD click may find: untouched fields, or a stop
\* loss that Adjust would turn away for a BUY at the price 11
ExitFormInputs == {<<0, 0, Blank>>, <<11, 0, Blank>>}
FewLtpVals == {11}
FewFormInputs == {<<0, 0, Blank>>, <<0, 0, Num(1)>>, <<11, 11, Num(1)>>}
EditVals == {Blank, NotANumber, Num(-1), Num(0), Num(12)}
FewEditVals == {Blank, Num(12)}
FundsLimits == {11, 24}
ReplyKinds == {"ok", "okNoBody", "notOk", "successFalse", "netErr"}
Roles == {"broker", "customer"}

\* a field the document does not carry (undefined, read as 0 by Number(x) || ...)
Undef == 0

\* The order documents the order service holds when the view is opened.  The
\* documents' stop_loss and target only seed the slPrice and targetPrice form
\* fields, which a click reads as inputs, so the documents do not carry them.
\* Order 1 carries every field; order 2 is a document without lot_size (the
\* case part_000:45 falls back to 1 for), holding 2 units in 1 lot.
InitialOrder(id) ==
    [ _id |-> id, order_id |-> Undef,
      side |-> IF id = 1 THEN "BUY" ELSE "SELL",
      product |-> IF id = 1 THEN "MIS" ELSE "NRML",
      lots |-> 1,
      lot_size |-> IF id = 1 THEN 2 ELSE Undef,
      quantity |-> 2,
      price |-> 10,
      order_status |-> "OPEN",
      jobbin_price |-> IF id = 1 THEN 5 ELSE 50 ]

NoOrder == [InitialOrder(1) EXCEPT !._id = 0, !.order_status = "none"]

NoFeedback == [type |-> "none", message |-> "none", required |-> 0, available |-> 0]
Feedback(t, m) == [type |-> t, message |-> m, required |-> 0, available |-> 0]

NoPayload == [none |-> TRUE]

VARIABLES
    server,             \* order service: order id -> order document
    instrumentData,     \* OpenOrder: fetched order list
    loader,             \* OpenOrder: loader flag
    error,              \* OpenOrder: error flag (error message present)
    fetchPending,       \* number of getOrderInstrument requests in flight
    selectedOrderData,  \* OpenOrder: selected order (NoOrder = null)
    win,                \* OpenOrderBottomWindow instance state
    flows,              \* handler invocations suspended at an await
    last,               \* what the handler step of the last transition did
    started,            \* number of clicks on an action button so far
    closeTimers         \* pending setTimeout(onClose, 1000) timers: the order each was set for

\* state of the order adjustment engine
orderVars == <<server, instrumentData, loader, error, fetchPending,
               selectedOrderData, win, flows, last, started, closeTimers>>

VARIABLES
    chain,              \* useOptionChain: state, refs and effect closure of the hook
    chainFetches,       \* useOptionChain: fetchOptionChain calls awaiting their response
    transport,          \* market-data transport: tokens subscribed for the option chain
    chainLast,          \* subscribe/unsubscribe calls issued by the last transition
    orderList,          \* OpenOrder: instrumentData tokens, snapshot map, effect cleanup
    listFlows,          \* OpenOrder: subscription effects suspended at an await
    listSubs,           \* market-data transport: tokens subscribed for the order list
    listLast,           \* what the subscription step of the last transition did
    clock,              \* time of the latest animation frame, in milliseconds
    ticks,              \* TickStore (ticksRef): token -> ltp of its latest tick, 0 = no tick
    loops,              \* the three reconciliation loops: closure variables and frame request
    loopLast,           \* what each loop's callback did in the last frame
    rowView             \* OpenOrder: instrumentData rows, orders, liveTicks and allData

\* state of the subscriptions of the market-data views
subVars == <<chain, chainFetches, transport, chainLast,
             orderList, listFlows, listSubs, listLast>>

\* state of the reconciliation loops
loopVars == <<clock, ticks, loops, loopLast>>

\* state of the market-data views
viewVars == <<subVars, loopVars, rowView>>

VARIABLES
    endpoint,           \* getOptionChain: the request being handled, service calls, responses
    quote               \* kiteQuote: the call in progress, lookups, HTTP requests, outcome

\* state of the backend
backendVars == <<endpoint, quote>>

vars == <<orderVars, viewVars, backendVars>>

\* ------------------------------------------------------ pure functions

Max(a, b) == IF a >= b THEN a ELSE b

\* Number.prototype.toFixed on the quotient n/d (n >= 0, d > 0): the nearest
\* integer multiple of the unit, the larger one on a tie.
RoundDiv(n, d) == (2 * n + d) \div (2 * d)

\* part_000:45
LotSize(o) == IF o.lot_size # 0 THEN o.lot_size ELSE 1

\* part_000:46-47   currentPrice = ltpRaw || Number(initialPrice) || 0
CurrentPrice(o, ltp) == IF ltp # 0 THEN ltp ELSE o.price

\* part_000:52
ProductType(o) == IF o.product = "MIS" THEN "Intraday" ELSE "Overnight"

\* the value NaN of a number; every comparison with it is false and every sum
\* or product with it is NaN.  The numbers it stands among here are >= 0.
NaN == -1

\* parseInt(String(addLotInput).trim() || '0', 10): the leading integer
\* numeral, NaN when the text starts with none
ParseInt(addLotInput) ==
    IF addLotInput[1] = "blank" THEN 0
    ELSE IF addLotInput[1] = "num" THEN addLotInput[2]
    ELSE NaN

\* part_000:107   Math.max(0, NaN) is NaN
ParsedAddLots(addLotInput) ==
    IF addLotInput[1] \in {"blank", "num"} THEN Max(0, ParseInt(addLotInput)) ELSE NaN

\* part_000:109-110
TargetTotalLots(o, add) == IF add = NaN THEN NaN ELSE o.lots + add
TargetTotalQuantity(o, add) ==
    IF add = NaN THEN NaN ELSE TargetTotalLots(o, add) * LotSize(o)

\* part_000:113-118, as numerator and denominator of the exact quotient
ComputedAvgNum(o, add, cp) ==
    IF add > 0 THEN o.quantity * o.price + (add * LotSize(o)) * cp ELSE o.price
ComputedAvgDen(o, add) ==
    IF add > 0 THEN TargetTotalQuantity(o, add) ELSE 1

\* Number(computedAvg).toFixed(2)
ComputedAvgFixed2(o, add, cp) == RoundDiv(ComputedAvgNum(o, add, cp), ComputedAvgDen(o, add))

\* part_000:185-209   TRUE iff no SL/target error is raised
SlTargetOk(side, sl, tgt, cp) ==
    IF cp > 0
    THEN IF side = "BUY"
         THEN ~(sl > 0 /\ sl >= cp) /\ ~(tgt > 0 /\ tgt <= cp)
         ELSE ~(sl > 0 /\ sl <= cp) /\ ~(tgt > 0 /\ tgt >= cp)
    ELSE TRUE

\* which of the two messages the first failing test raises
SlTargetMessage(side, sl, tgt, cp) ==
    IF side = "BUY"
    THEN IF sl > 0 /\ sl >= cp THEN "Invalid SL" ELSE "Invalid Target"
    ELSE IF sl > 0 /\ sl <= cp THEN "Invalid SL" ELSE "Invalid Target"

\* a fund check made for every Adjust->OPEN
QueriesFunds_Always(kind, add) == kind = "OPEN"

\* part_000:179, 212   the fund check is made only when lots are added
QueriesFunds(kind, add) == kind = "OPEN" /\ add > 0

\* part_000:217
RequiredAmount(add, lotSize, cp) == (add * lotSize) * cp

\* part_000:218-226
AvailableLimit(productType, fundsData) ==
    IF productType = "Intraday"
    THEN fundsData.intraday.available_limit - fundsData.intraday.used_limit
    ELSE fundsData.overnight.available_limit

\* the jobbing adjustment applied with the sides swapped
ClosedLtp_SidesSwapped(side, liveLtp, jobbing) ==
    IF liveLtp > 0
    THEN IF side = "BUY"
         THEN RoundDiv(liveLtp * (10000 + jobbing), 100)
         ELSE RoundDiv(liveLtp * (10000 - jobbing), 100)
    ELSE 0

\* part_000:275-282 and toFixed(4) at 289, in units of 0.0001
ClosedLtp(side, liveLtp, jobbing) ==
    IF liveLtp > 0
    THEN IF side = "BUY"
         THEN RoundDiv(liveLtp * (10000 - jobbing), 100)
         ELSE RoundDiv(liveLtp * (10000 + jobbing), 100)
    ELSE 0

\* part_000:253-272
OpenPayload(o, add, cp, slPrice, targetPrice) ==
    [ order_id |-> o._id,
      side |-> o.side,
      product |-> "MIS",
      lots |-> TargetTotalLots(o, add),
      quantity |-> TargetTotalQuantity(o, add),
      price |-> ComputedAvgFixed2(o, add, cp),
      came_From |-> "Open",
      order_status |-> "OPEN",
      stop_loss |-> slPrice,
      target |-> targetPrice,
      from |-> "ui_open_order_window_add" ]

\* an exit payload whose close price falls back to the stored price, the way
\* currentPrice does
ExitPayload_PriceFallback(o, targetStatus, ltp) ==
    [ order_id |-> o._id,
      closed_ltp |-> ClosedLtp(o.side, CurrentPrice(o, ltp), o.jobbin_price),
      closed_at |-> "now",
      order_status |-> targetStatus,
      came_From |-> IF targetStatus = "HOLD" THEN "Hold" ELSE "Open",
      from |-> "ui_open_order_window_exit" ]

\* part_000:284-295
ExitPayload(o, targetStatus, ltp) ==
    [ order_id |-> o._id,
      closed_ltp |-> ClosedLtp(o.side, ltp, o.jobbin_price),
      closed_at |-> "now",
      order_status |-> targetStatus,
      came_From |-> IF targetStatus = "HOLD" THEN "Hold" ELSE "Open",
      from |-> "ui_open_order_window_exit" ]

\* part_000:133-139
PricePayload(o, editPriceInput) ==
    [ order_id |-> o._id,
      price |-> editPriceInput[2],
      from |-> "ui_open_order_window_edit_price" ]

\* a test that also turns away the price 0
PriceInputInvalid_ZeroRejected(editPriceInput) ==
    \/ editPriceInput[1] = "blank"
    \/ editPriceInput[1] = "nan"
    \/ editPriceInput[2] <= 0

\* part_000:125
PriceInputInvalid(editPriceInput) ==
    \/ editPriceInput[1] = "blank"
    \/ editPriceInput[1] = "nan"
    \/ editPriceInput[2] < 0

\* ------------------------------------------------------------ view state

\* part_000:76-88   state of a freshly mounted OpenOrderBottomWindow.  The
\* form inputs (addLotInput, slPrice, targetPrice, editPriceInput), the role
\* read from localStorage and the live price sheetData.ltp are read by the
\* handlers from the render in which the click lands; they are inputs of the
\* click actions.
FreshWindow(o) ==
    [ mounted |-> TRUE,
      submitting |-> FALSE,
      feedback |-> NoFeedback,
      orderStatus |-> o.order_status,
      isEditingPrice |-> FALSE ]

Unmounted == [FreshWindow(NoOrder) EXCEPT !.mounted = FALSE]

\* part_000:97-103   effect run when the selectedOrder prop changes
SelectedOrderEffect(w, o) ==
    [w EXCEPT !.feedback = NoFeedback, !.orderStatus = o.order_status]

\* part_000:833-855, 976-982   the window is rendered only when an order is
\* selected and the parent shows neither the loader nor the error screen
WindowRendered(sel, ld, err) == sel # NoOrder /\ ~ld /\ ~err

\* The window after the parent re-renders with (sel, ld, err): unmounted,
\* freshly mounted, or the same instance with the prop effect applied.
WindowAfterRender(w, sel, ld, err, propChanged) ==
    IF ~WindowRendered(sel, ld, err) THEN Unmounted
    ELSE IF ~w.mounted THEN FreshWindow(sel)
    ELSE IF propChanged THEN SelectedOrderEffect(w, sel)
    ELSE w

\* state updates of a handler whose window instance is gone are dropped
DropLive(fs, stillMounted) ==
    [i \in DOMAIN fs |-> [fs[i] EXCEPT !.live = fs[i].live /\ stillMounted]]

\* the sequence fs without its i-th element
RemoveAt(fs, i) == SubSeq(fs, 1, i - 1) \o SubSeq(fs, i + 1, Len(fs))

NoFunds ==
    [ok |-> FALSE, intraday |-> [available_limit |-> 0, used_limit |-> 0],
     overnight |-> [available_limit |-> 0]]

\* A handler invocation suspended at an await: the constants of the render it
\* was started in (its closure) while it still reads them, and the request
\* it has sent.
Flow(kind, pc, o, cp, add, slPrice, targetPrice, payload) ==
    [ oid |-> o._id, kind |-> kind, live |-> TRUE, pc |-> pc,
      order |-> IF pc = "funds" THEN o ELSE NoOrder,
      cp |-> IF pc = "funds" THEN cp ELSE 0,
      add |-> IF pc = "funds" THEN add ELSE 0,
      slPrice |-> IF pc = "funds" THEN slPrice ELSE 0,
      targetPrice |-> IF pc = "funds" THEN targetPrice ELSE 0,
      payload |-> payload ]

\* What the handler step of the last transition did (ev = "none" when the
\* last transition ran no handler step).
NoEvent ==
    [ ev |-> "none", oid |-> 0, kind |-> "none", busy |-> FALSE, live |-> FALSE,
      order |-> NoOrder, cp |-> 0, ltp |-> 0, slPrice |-> 0, targetPrice |-> 0,
      add |-> 0, addLotInput |-> Blank, validation |-> "na", editPriceInput |-> Blank,
      fundsCalls |-> 0, mutCalls |-> 0, payload |-> NoPayload,
      fundsData |-> NoFunds, productType |-> "none",
      required |-> 0, available |-> 0,
      bcasts |-> 0, bcastOrder |-> NoOrder, replyOrder |-> NoOrder,
      timers |-> 0, feedback |-> NoFeedback ]

\* part_000:559-598   the order service's answer to getOrderInstrument
OpenOrders ==
    LET s1 == IF server[1].order_status = "OPEN" THEN <<server[1]>> ELSE <<>>
        s2 == IF server[2].order_status = "OPEN" THEN <<server[2]>> ELSE <<>>
    IN s1 \o s2

\* the order service applying an accepted updateOrder request; a field the
\* request gives no number for (lots "NaN", quantity null) is left as it was
ApplyMutation(o, p) ==
    IF "closed_ltp" \in DOMAIN p
    THEN [o EXCEPT !.order_status = p.order_status]
    ELSE IF "lots" \in DOMAIN p
    THEN [o EXCEPT !.lots = IF p.lots = NaN THEN @ ELSE p.lots,
                   !.quantity = IF p.quantity = NaN THEN @ ELSE p.quantity,
                   !.price = p.price,
                   !.order_status = p.order_status]
    ELSE [o EXCEPT !.price = p.price]

\* ------------------------------------------- option-chain view: state

\* values of the hook's parameters, as the paramsKey of useOptionChain.js:42
ParamKeys == {"A", "B"}
\* useOptionChain.js:33   the hook called without a name
NoName == "noname"
HookParams == ParamKeys \cup {NoName}
\* useOptionChain.js:143-167   instrument tokens of the chain fetched for k
StrikeTokens(k) == {<<k, "CE">>, <<k, "PE">>}
\* useOptionChain.js:219-220   token of the spot instrument of that chain
SpotToken(k) == <<k, "SPOT">>
TokensOf(k) == StrikeTokens(k) \cup {SpotToken(k)}

\* useOptionChain.js:13-27, 252   the hook before it is mounted.  cleanupSpot
\* is the spotInstrumentInfo the installed effect cleanup (228-234) closed
\* over and cleanup whether the effect's last run installed one; tokenMapRef
\* is held as the key of the chain the map was built from, chainDataRef as
\* the key of the chain the ref points to.  requested holds the keys a
\* request was sent for with no failed fetch of the key and no unsubscribe of
\* strikes since, duplicate whether a request was sent for such a key.
ChainIdle ==
    [ mounted |-> FALSE, unmounted |-> FALSE,
      params |-> "none", isConnected |-> TRUE,
      chainData |-> "none", spotInstrumentInfo |-> "none",
      subscribedTokensRef |-> {}, lastFetchParamsRef |-> "none",
      tokenMapRef |-> "none", chainDataRef |-> "none",
      cleanupSpot |-> "none", cleanup |-> FALSE,
      changes |-> 0, reconnected |-> FALSE,
      requested |-> {}, duplicate |-> FALSE ]

\* no call of fetchOptionChain; of a call: the key it was made with
\* (NoName without a name), the key recorded when it was made, and whether
\* it sent the request
NoFetchCall == [called |-> FALSE, key |-> "none", recorded |-> "none", sent |-> FALSE]

NoCalls == [step |-> "none", calls |-> <<>>, fetch |-> NoFetchCall]

\* ---------------------------------------------- order list view: state

\* instrument tokens of the orders the list can hold
ListTokens == {"X", "Y"}

\* part_000:522-527   the list view before it is mounted.  instrumentData is
\* held as the set of its rows' instrument tokens, orders as the set of
\* tokens the snapshot map has a baseline for; cleanupItems are the items
\* the installed effect cleanup (740-749) will unsubscribe, polls the number
\* of snapshot requests sent since the view was opened.
ListIdle ==
    [ mounted |-> FALSE, unmounted |-> FALSE,
      instrumentData |-> {}, orders |-> {}, cleanupItems |-> {}, changes |-> 0,
      polls |-> 0 ]

NoListEvent ==
    [ step |-> "none", items |-> {}, subOk |-> TRUE, reply |-> "none",
      subscribeCalls |-> 0, unsubscribeCalls |-> 0, snapshotCalls |-> 0,
      logged |-> FALSE ]

\* ------------------------------------------ reconciliation loops: state

\* updateLoop and spotUpdateLoop of useOptionChain, updateLoop of OpenOrder
LoopNames == {"chain", "spot", "list"}
\* the token each loop looks up in the TickStore: the option contract of the
\* chain row is also the instrument of the open order
LoopTokens == {"CE", "SPOT"}
LoopToken(name) ==
    IF name = "spot" THEN "SPOT" ELSE "CE"
\* the view owning the loop
LoopView(name) == IF name = "list" THEN "orders" ELSE "option"
LtpTicks == {1, 2}

\* useOptionChain.js:260
THROTTLE_MS_CHAIN == 50
\* useOptionChain.js:345
THROTTLE_MS_SPOT == 50
\* part_000:760
THROTTLE_MS_LIST == 200
THROTTLE_MS(name) ==
    IF name = "chain" THEN THROTTLE_MS_CHAIN
    ELSE IF name = "spot" THEN THROTTLE_MS_SPOT ELSE THROTTLE_MS_LIST

\* the page has been up for one order-list interval when the views are opened
ClockStart == THROTTLE_MS_LIST
\* time between two animation frames
FrameGaps == {40, 200}

\* the value a row shows before any tick was published: the baseline ltp of
\* the chain row, null for spotPrice, no entry in liveTicks
Baseline(name) == IF name = "chain" THEN 1 ELSE 0

\* a loop whose effect has not run.  pending is the id of the frame request
\* the browser holds (0 = none), animationFrameId and lastUpdate are the
\* effect's `let` variables, firstId the id of the effect's first request,
\* shown the value last published, lastPublish the time of that publish
\* (-1 = never).
LoopIdle(name) ==
    [ running |-> FALSE, tornDown |-> FALSE,
      pending |-> 0, animationFrameId |-> 0, firstId |-> 0,
      lastUpdate |-> 0, shown |-> Baseline(name), lastPublish |-> -1 ]

NoLoopEvent ==
    [ ran |-> FALSE, afterTeardown |-> FALSE, skipped |-> FALSE, published |-> FALSE,
      tick |-> 0, shownBefore |-> 0, sincePublish |-> -1 ]

\* ------------------------------------------- order list rows: state

\* an object without fields: {} , or the spread of null
NoFields == [f \in {} |-> 0]

\* the order documents a row of the list can hold: a position placed from
\* the option chain or not, one without quantity, one without a stored
\* price, and one carrying an ltp field of its own
RowOrders ==
    { [side |-> "BUY", price |-> 10, quantity |-> 2, fromOptionChain |-> FALSE],
      [side |-> "SELL", price |-> 10, quantity |-> 2, fromOptionChain |-> TRUE],
      [side |-> "SELL", price |-> 10, quantity |-> 0, fromOptionChain |-> FALSE],
      [side |-> "BUY", price |-> 0, quantity |-> 2, fromOptionChain |-> FALSE],
      [side |-> "BUY", price |-> 10, quantity |-> 2, fromOptionChain |-> FALSE, ltp |-> 9] }

\* baselines the snapshot service returns for a token
SnapshotInputs == { [ltp |-> 5, close |-> 4], [ltp |-> 0, close |-> 4], [close |-> 4] }

\* ticks the TickStore holds for a token
TickInputs == { [ltp |-> 7], [ltp |-> 0], [volume |-> 3] }

\* functions from a subset of the tokens to values of V
PartialMaps(V) == UNION { [ts -> V] : ts \in SUBSET ListTokens }

\* part_000:522-524, 753   the list before the orders are fetched
RowsIdle ==
    [ instrumentData |-> NoFields, orders |-> NoFields,
      liveTicks |-> NoFields, allData |-> NoFields ]

\* ------------------------------------------------------ backend: option-chain endpoint

\* a query parameter, property or argument that was not supplied (undefined)
Missing == "undefined"

\* JavaScript truthiness of a string-or-undefined value: !v
Falsy(v) == v \in {Missing, ""}

SeqElems(s) == { s[i] : i \in 1..Len(s) }

\* optionChainController.js:22   req.query.name
RequestNames == {Missing, "", "nifty", "GOLD"}

\* optionChainController.js:22   req.query.segment
RequestSegments == {Missing, "NFO-FUT", "MCX-OPT"}

\* optionChainController.js:22   req.query.expiry
RequestExpiries == {Missing, "2026-01-29"}

\* optionChainController.js:32   name.toUpperCase()
ToUpperCase(s) == IF s = "nifty" THEN "NIFTY" ELSE s

\* optionChainController.js:37-39   the option segment is what the segment
\* helper of the service returns for the segment given, or for the
\* underlying when none was given; the helper's value is kept as the
\* application it is
OptionSegment(segment, underlyingName) ==
    IF ~Falsy(segment)
    THEN <<"normalizeToOptionSegment", segment>>
    ELSE <<"getOptionSegment", underlyingName>>

\* optionChainController.js:45   what the expiry-list service resolves to
ExpiryLists == { <<>>, <<"2026-01-29">>, <<"2026-01-29", "2026-02-26">> }

\* optionChainController.js:46   getNearestExpiry(expiries): one of the
\* expiries listed or nothing
NearestExpiries(expiries) == {Missing} \cup SeqElems(expiries)

\* optionChainController.js:58-60   what the chain service resolves to: an
\* object whose chain may be absent, empty or a list of strike rows
NoChainData == [hasChain |-> FALSE, chain |-> <<>>, spotInstrumentInfo |-> Missing]

OptionChainResults ==
    { [hasChain |-> FALSE, chain |-> <<>>, spotInstrumentInfo |-> Missing] }
    \cup { [hasChain |-> TRUE, chain |-> c, spotInstrumentInfo |-> s] :
             c \in { <<>>, <<24000>>, <<24000, 24100>> },
             s \in {Missing, "256265"} }

\* optionChainController.js:26-29, 49-52, 61-64, 90-94   res.status(s).json({error})
ErrorResponse(status, message) ==
    [ status |-> status, ok |-> FALSE, error |-> message,
      data |-> [ underlying |-> Missing, segment |-> <<>>, expiry |-> Missing,
                 spotInstrumentInfo |-> Missing, chain |-> <<>> ] ]

\* optionChainController.js:20   no request being handled
EndpointIdle ==
    [ pc |-> "idle",
      name |-> Missing, segment |-> Missing, expiry |-> Missing,
      underlyingName |-> Missing, optionSegment |-> <<>>,
      targetExpiry |-> Missing, optionChainData |-> NoChainData,
      calls |-> <<>>, responses |-> <<>> ]

\* res.status(..).json(..) / res.json(..) followed by return
Respond(e, response) ==
    [e EXCEPT !.pc = "done", !.responses = Append(@, response)]

\* await of a service of kiteOptionChain.js: the handler is suspended at pc
CallService(e, fn, pc) ==
    [e EXCEPT !.pc = pc,
              !.calls = Append(@, [ fn |-> fn, underlying |-> e.underlyingName,
                                    segment |-> e.optionSegment,
                                    expiry |-> e.targetExpiry, threw |-> FALSE ])]

\* optionChainController.js:88-95   the awaited service rejected: control
\* passes to the catch block
CatchBlock(e) ==
    Respond([e EXCEPT !.calls[Len(e.calls)].threw = TRUE],
            ErrorResponse(500, "Failed to fetch option chain"))

ChainResponse_EmptyIsOk(e, optionChainData) ==
    [ status |-> 200, ok |-> TRUE, error |-> Missing,
      data |-> [ underlying |-> e.underlyingName,
                 segment |-> e.optionSegment,
                 expiry |-> e.targetExpiry,
                 spotInstrumentInfo |-> optionChainData.spotInstrumentInfo,
                 chain |-> optionChainData.chain ] ]

\* optionChainController.js:60-86
ChainResponse(e, optionChainData) ==
    IF ~optionChainData.hasChain \/ Len(optionChainData.chain) = 0
    THEN ErrorResponse(404, "No option chain data found")
    ELSE [ status |-> 200, ok |-> TRUE, error |-> Missing,
           data |-> [ underlying |-> e.underlyingName,
                      segment |-> e.optionSegment,
                      expiry |-> e.targetExpiry,
                      spotInstrumentInfo |-> optionChainData.spotInstrumentInfo,
                      chain |-> optionChainData.chain ] ]

\* optionChainController.js:20-58   a request arrives; the handler runs to
\* its first response or its first await
GetOptionChain(name, segment, expiry) ==
    /\ endpoint.pc \in {"idle", "done"}
    /\ LET e0 == [EndpointIdle EXCEPT !.name = name, !.segment = segment,
                                      !.expiry = expiry]
           e1 == [e0 EXCEPT !.underlyingName = ToUpperCase(name),
                            !.optionSegment = OptionSegment(segment, ToUpperCase(name)),
                            !.targetExpiry = expiry]
       IN  endpoint' =
               IF Falsy(name)
               THEN Respond(e0, ErrorResponse(400, "Missing required parameter"))
               ELSE IF Falsy(e1.targetExpiry)
                    THEN CallService(e1, "kiteGetExpiryList", "expiries")
                    ELSE CallService(e1, "kiteGetOptionChain", "chain")
    /\ UNCHANGED <<orderVars, viewVars, quote>>

\* optionChainController.js:45-58, 88-95   the expiry-list service settles
ExpiryListReply(threw, expiries, nearest) ==
    /\ endpoint.pc = "expiries"
    /\ nearest \in NearestExpiries(expiries)
    /\ LET e1 == [endpoint EXCEPT !.targetExpiry = nearest]
       IN  endpoint' =
               IF threw
               THEN CatchBlock(endpoint)
               ELSE IF Falsy(e1.targetExpiry)
                    THEN Respond(e1, ErrorResponse(404, "No active expiries found"))
                    ELSE CallService(e1, "kiteGetOptionChain", "chain")
    /\ UNCHANGED <<orderVars, viewVars, quote>>

\* optionChainController.js:58-95   the chain service settles
OptionChainReply(threw, optionChainData) ==
    /\ endpoint.pc = "chain"
    /\ LET e1 == [endpoint EXCEPT !.optionChainData = optionChainData]
       IN  endpoint' =
               IF threw
               THEN CatchBlock(endpoint)
               ELSE Respond(e1, ChainResponse(e1, optionChainData))
    /\ UNCHANGED <<orderVars, viewVars, quote>>

NextEndpoint ==
    \/ \E name \in RequestNames, segment \in RequestSegments,
          expiry \in RequestExpiries :
            GetOptionChain(name, segment, expiry)
    \/ \E threw \in BOOLEAN, expiries \in ExpiryLists :
          \E nearest \in NearestExpiries(expiries) :
            ExpiryListReply(threw, expiries, nearest)
    \/ \E threw \in BOOLEAN, optionChainData \in OptionChainResults :
            OptionChainReply(threw, optionChainData)

\* ------------------------------------------------------ backend: Kite quote service

\* kiteQuote.js:36, 94, 141
QuoteFns == {"getKiteQuote", "getKiteLTP", "getKiteOHLC"}

\* kiteQuote.js:28, 37   the instrumentTokens argument: not given, or a list
InstrumentTokenInputs ==
    { [given |-> FALSE, list |-> <<>>] }
    \cup { [given |-> TRUE, list |-> l] :
             l \in { <<>>, <<"256265">>, <<"256265", "260105">> } }

\* kiteQuote.js:37   !instrumentTokens || instrumentTokens.length === 0
NothingToFetch(instrumentTokens) ==
    ~instrumentTokens.given \/ Len(instrumentTokens.list) = 0

\* kiteQuote.js:13   what KiteCredential.findOne({is_active: true}) resolves
\* to: null or a document whose fields may be unset
NoCredential == [found |-> FALSE, api_key |-> Missing, access_token |-> Missing]

CredentialDocs ==
    { NoCredential }
    \cup { [found |-> TRUE, api_key |-> k, access_token |-> t] :
             k \in {Missing, "key"}, t \in {Missing, "", "token"} }

NoError == [message |-> Missing, status |-> 0]

\* kiteQuote.js:12-23   getKiteCredentials once findOne has resolved
GetKiteCredentials(credential) ==
    IF ~credential.found \/ Falsy(credential.api_key) \/ Falsy(credential.access_token)
    THEN [ threw |-> TRUE,
           error |-> [message |-> "No active Kite credentials found. Please login first.",
                      status |-> 0] ]
    ELSE [ threw |-> FALSE, error |-> NoError ]

\* kiteQuote.js:47-59, 102-113, 149-160   the GET request: the path of the
\* function, i=<token> for every token, and the credentials in the
\* Authorization header
QuoteRequest(fn, instrumentTokens, credential) ==
    [ path |-> CASE fn = "getKiteQuote" -> "/quote"
                 [] fn = "getKiteLTP"   -> "/quote/ltp"
                 [] fn = "getKiteOHLC"  -> "/quote/ohlc",
      tokens |-> instrumentTokens.list,
      authorization |-> <<credential.api_key, credential.access_token>> ]

\* kiteQuote.js:53   HTTP status of the response fetch resolves to (0: none yet)
ResponseStatuses == {200, 403, 500}

\* Response.ok of the fetch API: status in the range 200-299
ResponseOk(status) == status \in 200..299

\* kiteQuote.js:61-69, 115-119, 162-166   the error thrown for a response that is not ok
ApiError(fn, status) ==
    IF fn = "getKiteQuote" /\ status = 403
    THEN [message |-> "Access token expired. Please login again.", status |-> 0]
    ELSE [ message |-> CASE fn = "getKiteQuote" -> "Kite Quote API error"
                         [] fn = "getKiteLTP"   -> "Kite LTP API error"
                         [] fn = "getKiteOHLC"  -> "Kite OHLC API error",
           status |-> status ]

\* kiteQuote.js:71   what response.json() yields: a parse failure, or a body
\* with a status, an optional message and an optional data map (a set of
\* <<token, last price>> pairs, a subset of the tokens asked for)
NoBody ==
    [parsed |-> FALSE, status |-> Missing, message |-> Missing,
     hasData |-> FALSE, data |-> {}]

Bodies(instrumentTokens) ==
    LET DataMaps == { { <<t, 24850>> : t \in ts } :
                        ts \in SUBSET SeqElems(instrumentTokens.list) }
    IN
    { NoBody }
    \cup { [parsed |-> TRUE, status |-> "error", message |-> m,
            hasData |-> FALSE, data |-> {}] : m \in {Missing, "Invalid token"} }
    \cup { [parsed |-> TRUE, status |-> "error", message |-> Missing,
            hasData |-> TRUE, data |-> d] : d \in DataMaps }
    \cup { [parsed |-> TRUE, status |-> "success", message |-> Missing,
            hasData |-> FALSE, data |-> {}] }
    \cup { [parsed |-> TRUE, status |-> "success", message |-> Missing,
            hasData |-> TRUE, data |-> d] : d \in DataMaps }

BodyResult_IgnoresStatus(fn, data) ==
    [ threw |-> FALSE, error |-> NoError,
      result |-> IF data.hasData THEN data.data ELSE {} ]

\* kiteQuote.js:71-79, 121-127, 168-174   the parsed body decides: throw
\* data.message || '<default of the function>' unless its status is
\* 'success', else return data.data || {}
BodyResult(fn, data) ==
    IF data.status # "success"
    THEN [ threw |-> TRUE,
           error |-> [ message |->
                          IF ~Falsy(data.message) THEN data.message
                          ELSE CASE fn = "getKiteQuote" -> "Failed to fetch quotes"
                                 [] fn = "getKiteLTP"   -> "Failed to fetch LTP"
                                 [] fn = "getKiteOHLC"  -> "Failed to fetch OHLC",
                       status |-> 0 ],
           result |-> {} ]
    ELSE [ threw |-> FALSE, error |-> NoError,
           result |-> IF data.hasData THEN data.data ELSE {} ]

\* kiteQuote.js:36   no call in progress
QuoteIdle ==
    [ pc |-> "idle", fn |-> "getKiteQuote", instrumentTokens |-> [given |-> FALSE, list |-> <<>>],
      lookups |-> 0, credential |-> NoCredential, requests |-> <<>>,
      response |-> 0, data |-> NoBody, result |-> {}, error |-> NoError ]

\* return <map>
Return(q, result) == [q EXCEPT !.pc = "returned", !.result = result]

\* kiteQuote.js:81-84, 129-132, 176-179   catch (error) { ...; throw error }
Throw(q, err) == [q EXCEPT !.pc = "thrown", !.error = err]

\* kiteQuote.js:36-42, 94-100, 141-147   the function is called: it returns
\* the empty map, or starts the credential lookup
CallQuoteFn(fn, instrumentTokens) ==
    /\ quote.pc \in {"idle", "returned", "thrown"}
    /\ LET q0 == [QuoteIdle EXCEPT !.fn = fn, !.instrumentTokens = instrumentTokens]
       IN  quote' =
               IF NothingToFetch(instrumentTokens)
               THEN Return(q0, {})
               ELSE [q0 EXCEPT !.pc = "credentials", !.lookups = @ + 1]
    /\ UNCHANGED <<orderVars, viewVars, endpoint>>

\* kiteQuote.js:13-23, 42-59   the credential lookup settles: the function
\* throws, or sends the HTTP request
CredentialReply(threw, credential) ==
    /\ quote.pc = "credentials"
    /\ LET q1 == [quote EXCEPT !.credential = credential]
           c  == GetKiteCredentials(credential)
       IN  quote' =
               IF threw
               THEN Throw(quote, [message |-> "credential lookup failed", status |-> 0])
               ELSE IF c.threw
                    THEN Throw(q1, c.error)
                    ELSE [q1 EXCEPT !.pc = "fetch",
                                    !.requests = Append(@, QuoteRequest(quote.fn,
                                                     quote.instrumentTokens, credential))]
    /\ UNCHANGED <<orderVars, viewVars, endpoint>>

\* kiteQuote.js:53-71, 107-121, 154-168   fetch settles: it rejects, or
\* resolves to a response; a response that is not ok makes the function
\* throw, an ok one has its body parsed
FetchReply(threw, status) ==
    /\ quote.pc = "fetch"
    /\ LET q1 == [quote EXCEPT !.response = status]
       IN  quote' =
               IF threw
               THEN Throw(quote, [message |-> "fetch failed", status |-> 0])
               ELSE IF ~ResponseOk(status)
                    THEN Throw(q1, ApiError(quote.fn, status))
                    ELSE [q1 EXCEPT !.pc = "json"]
    /\ UNCHANGED <<orderVars, viewVars, endpoint>>

\* kiteQuote.js:71-79, 121-127, 168-174   response.json() settles
JsonReply(data) ==
    /\ quote.pc = "json"
    /\ data \in Bodies(quote.instrumentTokens)
    /\ LET q1 == [quote EXCEPT !.data = data]
           b  == BodyResult(quote.fn, data)
       IN  quote' =
               IF ~data.parsed
               THEN Throw(quote, [message |-> "Unexpected token in JSON", status |-> 0])
               ELSE IF b.threw
                    THEN Throw(q1, b.error)
                    ELSE Return(q1, b.result)
    /\ UNCHANGED <<orderVars, viewVars, endpoint>>

NextQuote ==
    \/ \E fn \in QuoteFns, instrumentTokens \in InstrumentTokenInputs :
            CallQuoteFn(fn, instrumentTokens)
    \/ \E threw \in BOOLEAN, credential \in CredentialDocs :
            CredentialReply(threw, credential)
    \/ \E threw \in BOOLEAN, status \in ResponseStatuses :
            FetchReply(threw, status)
    \/ \E data \in UNION { Bodies(t) : t \in InstrumentTokenInputs } :
            JsonReply(data)

InitBackend ==
    /\ endpoint = EndpointIdle
    /\ quote = QuoteIdle

InitViews ==
    /\ rowView = RowsIdle
    /\ clock = ClockStart
    /\ ticks = [t \in LoopTokens |-> 0]
    /\ loops = [n \in LoopNames |-> LoopIdle(n)]
    /\ loopLast = [n \in LoopNames |-> NoLoopEvent]
    /\ chain = ChainIdle
    /\ chainFetches = <<>>
    /\ transport = {}
    /\ chainLast = NoCalls
    /\ orderList = ListIdle
    /\ listFlows = <<>>
    /\ listSubs = {}
    /\ listLast = NoListEvent

Init ==
    /\ InitViews
    /\ InitBackend
    /\ server = [id \in OrderIds |-> InitialOrder(id)]
    /\ instrumentData = <<>>
    /\ loader = TRUE
    /\ error = FALSE
    /\ fetchPending = 1
    /\ selectedOrderData = NoOrder
    /\ win = Unmounted
    /\ flows = <<>>
    /\ last = NoEvent
    /\ started = 0
    /\ closeTimers = <<>>

\* -------------------------------------------------------- parent actions

\* part_000:560-598   completion of fetchInstrumentData
FetchInstrumentDataReply(ok) ==
    /\ fetchPending > 0
    /\ fetchPending' = fetchPending - 1
    /\ instrumentData' = IF ok THEN OpenOrders ELSE <<>>
    /\ error' = ~ok
    /\ loader' = FALSE
    /\ win' = WindowAfterRender(win, selectedOrderData, loader', error', FALSE)
    /\ flows' = DropLive(flows, win.mounted /\ win'.mounted)
    /\ last' = NoEvent
    /\ UNCHANGED <<server, selectedOrderData, started, closeTimers>>
    /\ UNCHANGED <<viewVars, backendVars>>

\* part_000:846-851   Retry button of the error screen
Retry ==
    /\ error /\ ~loader
    /\ loader' = TRUE
    /\ fetchPending' = fetchPending + 1
    /\ last' = NoEvent
    /\ UNCHANGED <<server, instrumentData, error, selectedOrderData,
                   win, flows, started, closeTimers>>
    /\ UNCHANGED <<viewVars, backendVars>>

\* part_000:551-553, 931   click on a list row
HandleOrderSelect(k) ==
    /\ ~loader /\ ~error
    /\ k \in 1..Len(instrumentData)
    /\ selectedOrderData' = instrumentData[k]
    /\ win' = WindowAfterRender(win, selectedOrderData', loader, error, TRUE)
    /\ last' = NoEvent
    /\ UNCHANGED <<server, instrumentData, loader, error,
                   fetchPending, flows, started, closeTimers>>
    /\ UNCHANGED <<viewVars, backendVars>>

\* part_000:555-557, 334   close button of the window
HandleCloseWindow ==
    /\ win.mounted
    /\ selectedOrderData' = NoOrder
    /\ win' = Unmounted
    /\ flows' = DropLive(flows, FALSE)
    /\ last' = NoEvent
    /\ UNCHANGED <<server, instrumentData, loader, error,
                   fetchPending, started, closeTimers>>
    /\ UNCHANGED <<viewVars, backendVars>>

\* part_000:320, 555-557   the delayed onClose of a successful Adjust; the
\* timers share one delay, so they fire in the order they were set
CloseTimerFires ==
    /\ closeTimers # <<>>
    /\ closeTimers' = Tail(closeTimers)
    /\ selectedOrderData' = NoOrder
    /\ win' = Unmounted
    /\ flows' = DropLive(flows, FALSE)
    /\ last' = NoEvent
    /\ UNCHANGED <<server, instrumentData, loader, error, fetchPending, started>>
    /\ UNCHANGED <<viewVars, backendVars>>

\* part_000:431, 457-465   pencil button (rendered for the broker role)
StartEditPrice ==
    /\ win.mounted /\ ~win.isEditingPrice
    /\ win' = [win EXCEPT !.isEditingPrice = TRUE]
    /\ last' = NoEvent
    /\ UNCHANGED <<server, instrumentData, loader, error, fetchPending,
                   selectedOrderData, flows, started, closeTimers>>
    /\ UNCHANGED <<viewVars, backendVars>>

\* buttons that stay enabled while a request is pending
ButtonDisabled_Never(w) == FALSE

\* part_000:447, 450, 480, 489, 499   disabled={submitting}
ButtonDisabled(w) == w.submitting

\* part_000:450-452   cancel button of the price editor
CancelEditPrice ==
    /\ win.mounted /\ win.isEditingPrice
    /\ ~ButtonDisabled(win)
    /\ win' = [win EXCEPT !.isEditingPrice = FALSE]
    /\ last' = NoEvent
    /\ UNCHANGED <<server, instrumentData, loader, error, fetchPending,
                   selectedOrderData, flows, started, closeTimers>>
    /\ UNCHANGED <<viewVars, backendVars>>

\* --------------------------------------------------- handler decisions

\* an SL/target error that only sets the message and falls through
ValidationReturns_Never(validation) == FALSE

\* part_000:190, 195, 201, 206   `return` after an SL/target error
ValidationReturns(validation) == validation = "failed"

\* the comparison with >= in place of >
FundsRejects_AtBoundary(required, available) == required >= available

\* part_000:228
FundsRejects(required, available) == required > available

\* part_000:215, 228-240   outcome of the fund check for a funds reply
FundsOutcome(fundsData, required, available) ==
    IF ~fundsData.ok THEN "fundsFailed"
    ELSE IF FundsRejects(required, available) THEN "fundsRejected"
    ELSE "fundsAccepted"

\* part_000:234, 239   `return` after a funds error
FundsReturns(outcome) == outcome # "fundsAccepted"

\* part_000:150, 307   the response is taken as a success
ResponseSucceeds(r) == r \in {"ok", "okNoBody"}

\* a dispatch placed in the finally block
BroadcastsOn_Always(outcome) == TRUE

\* part_000:158, 317   dispatch of 'orders:changed'
BroadcastsOn(outcome) == outcome = "success"

\* the delayed close placed in the finally block
SchedulesClose_Always(kind, outcome) == kind # "PRICE"

\* part_000:320   setTimeout(() => onClose(), 1000)
SchedulesClose(kind, outcome) == outcome = "success" /\ kind # "PRICE"

\* a catch block without the finally that clears the flag
SubmittingAfter_KeptOnError(outcome) == outcome = "failed"

\* part_000:165, 190, 233, 238, 326   value of `submitting` once the handler is over
SubmittingAfter(outcome) == FALSE

\* part_000:664-667   the event handler's test and merge on the selected order
EventMatches(sel, upd) ==
    upd # NoOrder /\ sel # NoOrder
    /\ (sel._id = upd._id \/ sel.order_id = upd.order_id)
MergeOrder(prev, upd) ==
    [f \in DOMAIN prev \cup DOMAIN upd |-> IF f \in DOMAIN upd THEN upd[f] ELSE prev[f]]

FundsReplies ==
    { NoFunds } \cup
    { [ok |-> TRUE, intraday |-> [available_limit |-> a + 2, used_limit |-> 2],
        overnight |-> [available_limit |-> a]] : a \in FundsLimits }

\* ------------------------------------------------------ window handlers

\* part_000:170-302   handleAction up to its first suspension point
HandleAction(kind, ltp, slPrice, targetPrice, addLotInput) ==
    LET o == selectedOrderData
        cp == CurrentPrice(o, ltp)
        add == ParsedAddLots(addLotInput)
        validation == IF kind = "OPEN"
                      THEN IF SlTargetOk(o.side, slPrice, targetPrice, cp)
                           THEN "passed" ELSE "failed"
                      ELSE "na"
        payload == IF kind = "OPEN"
                   THEN OpenPayload(o, add, cp, slPrice, targetPrice)
                   ELSE ExitPayload(o, kind, ltp)
        required == RequiredAmount(add, LotSize(o), cp)
        e0 == [NoEvent EXCEPT
                  !.oid = o._id, !.kind = kind, !.busy = win.submitting, !.live = TRUE, !.order = o,
                  !.cp = cp, !.ltp = ltp, !.add = add, !.addLotInput = addLotInput,
                  !.slPrice = slPrice, !.targetPrice = targetPrice,
                  !.validation = validation, !.productType = ProductType(o)]
        fb == Feedback("error", SlTargetMessage(o.side, slPrice, targetPrice, cp))
    IN
    IF ValidationReturns(validation)
    THEN /\ last' = [e0 EXCEPT !.ev = "invalid", !.feedback = fb]
         /\ flows' = flows
         /\ win' = [win EXCEPT !.submitting = SubmittingAfter("invalid"), !.feedback = fb]
    ELSE IF QueriesFunds(kind, add)
    THEN /\ last' = [e0 EXCEPT !.ev = "fundsQuery", !.fundsCalls = 1, !.required = required]
         /\ flows' = Append(flows,
                Flow(kind, "funds", o, cp, add, slPrice, targetPrice, NoPayload))
         /\ win' = [win EXCEPT !.submitting = TRUE, !.feedback = NoFeedback]
    ELSE /\ last' = [e0 EXCEPT !.ev = "sent", !.mutCalls = 1, !.payload = payload]
         /\ flows' = Append(flows, Flow(kind, "mutation", o, 0, 0, 0, 0, payload))
         /\ win' = [win EXCEPT !.submitting = TRUE, !.feedback = NoFeedback]

\* part_000:474-505   click on BUY MORE / EXIT / CONVERT TO HOLD
ClickAction(kind, userRole, marketOpen, ltp, inputs) ==
    /\ win.mounted
    /\ userRole = "broker" \/ marketOpen
    /\ kind = "HOLD" => userRole = "broker"
    /\ kind # "OPEN" => inputs \in ExitFormInputs
    /\ win.orderStatus # "OPEN" => inputs[3] = Blank
    /\ started' = started + 1
    /\ IF ButtonDisabled(win)
       THEN /\ last' = [NoEvent EXCEPT !.ev = "rejected", !.oid = selectedOrderData._id,
                                       !.kind = kind, !.busy = TRUE,
                                       !.live = TRUE, !.order = selectedOrderData]
            /\ UNCHANGED <<win, flows>>
       ELSE HandleAction(kind, ltp, inputs[1], inputs[2], inputs[3])
    /\ UNCHANGED <<server, instrumentData, loader, error, fetchPending,
                   selectedOrderData, closeTimers>>
    /\ UNCHANGED <<viewVars, backendVars>>

\* part_000:124-145, 447   click on the save button of the price editor
ClickPriceSave(editPriceInput) ==
    /\ win.mounted /\ win.isEditingPrice
    /\ started' = started + 1
    /\ LET o == selectedOrderData
           payload == PricePayload(o, editPriceInput)
           e0 == [NoEvent EXCEPT !.oid = o._id, !.kind = "PRICE", !.busy = win.submitting,
                                 !.live = TRUE, !.order = o,
                                 !.editPriceInput = editPriceInput]
           fb == Feedback("error", "Invalid Price")
       IN
       IF ButtonDisabled(win)
       THEN /\ last' = [e0 EXCEPT !.ev = "rejected"]
            /\ UNCHANGED <<win, flows>>
       ELSE IF PriceInputInvalid(editPriceInput)
       THEN /\ last' = [e0 EXCEPT !.ev = "invalid", !.validation = "failed", !.feedback = fb]
            /\ flows' = flows
            /\ win' = [win EXCEPT !.feedback = fb]
       ELSE /\ last' = [e0 EXCEPT !.ev = "sent", !.validation = "passed",
                                  !.mutCalls = 1, !.payload = payload]
            /\ flows' = Append(flows, Flow("PRICE", "mutation", o, 0, 0, 0, 0, payload))
            /\ win' = [win EXCEPT !.submitting = TRUE]
    /\ UNCHANGED <<server, instrumentData, loader, error, fetchPending,
                   selectedOrderData, closeTimers>>
    /\ UNCHANGED <<viewVars, backendVars>>

\* part_000:214-272   the funds lookup settles
FundsReply(i, fundsData) ==
    /\ i \in DOMAIN flows
    /\ flows[i].pc = "funds"
    /\ LET a == flows[i]
           required == RequiredAmount(a.add, LotSize(a.order), a.cp)
           available == IF fundsData.ok
                        THEN AvailableLimit(ProductType(a.order), fundsData) ELSE 0
           outcome == FundsOutcome(fundsData, required, available)
           payload == OpenPayload(a.order, a.add, a.cp, a.slPrice, a.targetPrice)
           fb == IF outcome = "fundsRejected"
                 THEN [type |-> "error", message |-> "Insufficient Funds",
                       required |-> required, available |-> available]
                 ELSE Feedback("error", "Fund check failed")
           e0 == [NoEvent EXCEPT !.ev = outcome, !.oid = a.oid, !.kind = a.kind,
                                 !.live = a.live, !.order = a.order, !.cp = a.cp,
                                 !.add = a.add, !.slPrice = a.slPrice,
                                 !.targetPrice = a.targetPrice, !.validation = "passed",
                                 !.fundsData = fundsData,
                                 !.productType = ProductType(a.order),
                                 !.required = required, !.available = available]
       IN
       IF FundsReturns(outcome)
       THEN /\ last' = [e0 EXCEPT !.feedback = fb]
            /\ flows' = RemoveAt(flows, i)
            /\ win' = IF a.live
                      THEN [win EXCEPT !.submitting = SubmittingAfter(outcome), !.feedback = fb]
                      ELSE win
       ELSE /\ last' = [e0 EXCEPT !.mutCalls = 1, !.payload = payload]
            /\ flows' = [flows EXCEPT ![i] =
                   [Flow(a.kind, "mutation", a.order, 0, 0, 0, 0, payload)
                       EXCEPT !.live = a.live]]
            /\ win' = win
    /\ UNCHANGED <<server, instrumentData, loader, error, fetchPending,
                   selectedOrderData, started, closeTimers>>
    /\ UNCHANGED <<viewVars, backendVars>>

\* part_000:141-166, 298-327, 658-672   the updateOrder request settles
MutationReply(i, r) ==
    /\ i \in DOMAIN flows
    /\ flows[i].pc = "mutation"
    /\ LET a == flows[i]
           outcome == IF ResponseSucceeds(r) THEN "success" ELSE "failed"
           newServer == IF ResponseSucceeds(r)
                        THEN [server EXCEPT ![a.oid] = ApplyMutation(@, a.payload)]
                        ELSE server
           replyOrder == IF r = "ok" THEN newServer[a.oid] ELSE NoOrder
           fb == IF outcome = "success"
                 THEN Feedback("success", IF a.kind = "PRICE" THEN "Price Updated" ELSE "Updated")
                 ELSE Feedback("error", "Failed")
           bc == BroadcastsOn(outcome)
           tm == SchedulesClose(a.kind, outcome)
           w1 == IF a.live
                 THEN [win EXCEPT !.submitting = SubmittingAfter(outcome),
                                  !.feedback = fb,
                                  !.isEditingPrice =
                                      IF a.kind = "PRICE" /\ outcome = "success"
                                      THEN FALSE ELSE @]
                 ELSE win
           merges == bc /\ EventMatches(selectedOrderData, replyOrder)
       IN
       /\ server' = newServer
       /\ selectedOrderData' = IF merges THEN MergeOrder(selectedOrderData, replyOrder)
                               ELSE selectedOrderData
       /\ loader' = (loader \/ bc)
       /\ fetchPending' = IF bc THEN fetchPending + 1 ELSE fetchPending
       /\ closeTimers' = IF tm THEN Append(closeTimers, a.oid) ELSE closeTimers
       /\ win' = WindowAfterRender(w1, selectedOrderData', loader', error, merges)
       /\ flows' = DropLive(RemoveAt(flows, i), win.mounted /\ win'.mounted)
       /\ last' = [NoEvent EXCEPT !.ev = outcome, !.oid = a.oid, !.kind = a.kind,
                                  !.live = a.live, !.feedback = fb,
                                  !.replyOrder = replyOrder,
                                  !.bcasts = IF bc THEN 1 ELSE 0,
                                  !.bcastOrder = IF bc THEN replyOrder ELSE NoOrder,
                                  !.timers = IF tm THEN 1 ELSE 0]
    /\ UNCHANGED <<instrumentData, error, started>>
    /\ UNCHANGED <<viewVars, backendVars>>

Next ==
    \/ \E ok \in BOOLEAN : FetchInstrumentDataReply(ok)
    \/ Retry
    \/ \E k \in OrderIds : HandleOrderSelect(k)
    \/ HandleCloseWindow
    \/ CloseTimerFires
    \/ StartEditPrice
    \/ CancelEditPrice
    \/ \E kind \in {"OPEN", "CLOSED", "HOLD"}, userRole \in Roles, marketOpen \in BOOLEAN,
          ltp \in FewLtpVals, inputs \in FewFormInputs :
            started < MaxAttempts /\ ClickAction(kind, userRole, marketOpen, ltp, inputs)
    \/ \E v \in FewEditVals : started < MaxAttempts /\ ClickPriceSave(v)
    \/ \E i \in 1..MaxAttempts, f \in FundsReplies : FundsReply(i, f)
    \/ \E i \in 1..MaxAttempts, r \in ReplyKinds : MutationReply(i, r)

\* the order adjustment engine across window instances
Spec == Init /\ [][Next]_vars

NextForm ==
    \/ \E ok \in BOOLEAN : FetchInstrumentDataReply(ok)
    \/ Retry
    \/ \E k \in OrderIds : HandleOrderSelect(k)
    \/ HandleCloseWindow
    \/ CloseTimerFires
    \/ StartEditPrice
    \/ CancelEditPrice
    \/ \E kind \in {"OPEN", "CLOSED", "HOLD"}, userRole \in Roles, marketOpen \in BOOLEAN,
          ltp \in LtpVals, inputs \in FormInputs :
            started < FormAttempts /\ ClickAction(kind, userRole, marketOpen, ltp, inputs)
    \/ \E v \in EditVals : started < FormAttempts /\ ClickPriceSave(v)
    \/ \E i \in 1..FormAttempts, f \in FundsReplies : FundsReply(i, f)
    \/ \E i \in 1..FormAttempts, r \in ReplyKinds : MutationReply(i, r)

\* the same engine, every form input, fewer clicks
SpecForm == Init /\ [][NextForm]_vars

\* ----------------------------------------- option-chain view: actions

\* the hook, its pending fetches, the transport and the calls issued so far
\* in the step being taken
World(c) == [c |-> c, f |-> chainFetches, t |-> transport, calls |-> <<>>,
             fetch |-> NoFetchCall]

\* the transport's subscribe: tokens become active while the socket is up
TransportSubscribe(w, tokens) ==
    [w EXCEPT !.t = IF w.c.isConnected THEN @ \cup tokens ELSE @,
              !.calls = Append(@, [op |-> "subscribe", tokens |-> tokens, active |-> w.t])]

\* the transport's unsubscribe
TransportUnsubscribe(w, tokens) ==
    [w EXCEPT !.t = @ \ tokens,
              !.calls = Append(@, [op |-> "unsubscribe", tokens |-> tokens, active |-> w.t])]

\* useOptionChain.js:131-186   called with the chain of key k by a closure
\* that saw isConnected = conn
SubscribeToOptionStrikes(w, k, conn) ==
    IF k = "none" \/ ~conn THEN w
    ELSE TransportSubscribe([w EXCEPT !.c.subscribedTokensRef = StrikeTokens(k),
                                      !.c.tokenMapRef = k],
                            StrikeTokens(k))

\* useOptionChain.js:191-203
UnsubscribeFromOptionStrikes(w) ==
    IF w.c.subscribedTokensRef = {} THEN w
    ELSE [TransportUnsubscribe(w, w.c.subscribedTokensRef)
             EXCEPT !.c.subscribedTokensRef = {}, !.c.tokenMapRef = "none",
                    !.c.lastFetchParamsRef = "none", !.c.requested = {}]

\* useOptionChain.js:32-62   fetchOptionChain up to its await; conn tells
\* whether the caller's then-handler subscribes (the effect's, when its
\* closure saw the socket connected)
FetchOptionChain(w, k, conn) ==
    LET call == [called |-> TRUE, key |-> k, recorded |-> w.c.lastFetchParamsRef,
                 sent |-> FALSE]
    IN IF k = NoName \/ w.c.lastFetchParamsRef = k
       THEN [w EXCEPT !.fetch = call]
       ELSE [w EXCEPT !.f = Append(@, [key |-> k, conn |-> conn]),
                      !.fetch = [call EXCEPT !.sent = TRUE],
                      !.c.requested = @ \cup {k},
                      !.c.duplicate = @ \/ k \in w.c.requested]

\* useOptionChain.js:228-234   cleanup of the fetch/subscribe effect
EffectCleanup(w) ==
    LET w1 == UnsubscribeFromOptionStrikes(w)
    IN IF ~w.c.cleanup THEN w
       ELSE IF w.c.cleanupSpot # "none"
       THEN TransportUnsubscribe(w1, {SpotToken(w.c.cleanupSpot)})
       ELSE w1

\* useOptionChain.js:208-226   the fetch/subscribe effect run for the current render
FetchEffect(w) ==
    LET w1 == UnsubscribeFromOptionStrikes(w)
        w2 == FetchOptionChain(w1, w.c.params, w.c.isConnected)
    IN IF w.c.params = NoName
       THEN [w EXCEPT !.c.cleanup = FALSE]
       ELSE [w2 EXCEPT !.c.cleanupSpot = w.c.spotInstrumentInfo, !.c.cleanup = TRUE]

\* useOptionChain.js:240-245   the re-subscribe effect
ResubscribeEffect(w) ==
    IF w.c.isConnected /\ w.c.chainData # "none" /\ w.c.subscribedTokensRef = {}
    THEN SubscribeToOptionStrikes(w, w.c.chainData, w.c.isConnected)
    ELSE w

\* the step's result written to the variables
Commit(step, w) ==
    /\ chain' = w.c
    /\ chainFetches' = w.f
    /\ transport' = w.t
    /\ chainLast' = [step |-> step, calls |-> w.calls, fetch |-> w.fetch]
    /\ UNCHANGED <<orderVars, backendVars, orderList, listFlows, listSubs, listLast, loopVars, rowView>>

\* useOptionChain.js:253-255   chainDataRef.current = chainData, an effect
\* of the render that brought the new chainData
SyncedRef(c) == [c EXCEPT !.chainDataRef = c.chainData]

\* the view is opened with parameters p
HookMount(p) ==
    /\ ~chain.mounted /\ ~chain.unmounted
    /\ Commit("mount",
          ResubscribeEffect(FetchEffect(
              World([chain EXCEPT !.mounted = TRUE, !.params = p]))))

\* name, segment or expiry change
SetParams(p) ==
    /\ chain.mounted /\ p # chain.params
    /\ chain.changes < MaxViewChanges
    /\ Commit("params",
          FetchEffect(EffectCleanup(
              World([SyncedRef(chain) EXCEPT !.params = p, !.changes = @ + 1]))))

\* isConnected of the market-data context flips; subscriptions do not
\* survive the loss of the connection
ConnectionChanges ==
    /\ ~chain.unmounted
    /\ chain.changes < MaxViewChanges
    /\ LET c1 == [SyncedRef(chain) EXCEPT !.isConnected = ~@, !.changes = @ + 1,
                               !.reconnected = @ \/ (chain.mounted /\ ~chain.isConnected)]
           w0 == [World(c1) EXCEPT !.t = IF c1.isConnected THEN @ ELSE {}]
       IN Commit(IF c1.isConnected THEN "reconnect" ELSE "disconnect",
                 IF chain.mounted
                 THEN ResubscribeEffect(FetchEffect(EffectCleanup(w0)))
                 ELSE w0)

\* useOptionChain.js:64-89, 214-223   the option-chain request settles
FetchOptionChainReply(i, ok) ==
    /\ i \in DOMAIN chainFetches
    /\ LET f == chainFetches[i]
           c0 == IF ~ok THEN [chain EXCEPT !.requested = @ \ {f.key}] ELSE chain
           c1 == IF ~ok
                 THEN IF chain.mounted THEN [c0 EXCEPT !.chainData = "none"] ELSE c0
                 ELSE [chain EXCEPT
                          !.chainData = IF chain.mounted THEN f.key ELSE @,
                          !.spotInstrumentInfo = IF chain.mounted THEN f.key ELSE @,
                          !.lastFetchParamsRef = f.key]
           w0 == [World(c1) EXCEPT !.f = RemoveAt(chainFetches, i)]
           w1 == IF ok /\ f.conn
                 THEN TransportSubscribe(SubscribeToOptionStrikes(w0, f.key, f.conn),
                                         {SpotToken(f.key)})
                 ELSE w0
       IN Commit(IF ok THEN "fetched" ELSE "fetchFailed",
                 IF chain.mounted THEN ResubscribeEffect(w1) ELSE w1)

\* useOptionChain.js:253-255   the pending effect of the last render runs
SyncChainDataRef ==
    /\ chain.mounted
    /\ chain.chainDataRef # chain.chainData
    /\ Commit("sync", World(SyncedRef(chain)))

\* useOptionChain.js:262-329   a due frame of updateLoop in which the
\* TickStore holds, for a token of the map, a tick with a new positive ltp:
\* the rows at the map's positions in chainDataRef.current are rewritten and
\* the result becomes both chainDataRef.current and chainData
ChainUpdateLoop ==
    /\ chain.mounted
    /\ chain.chainDataRef # "none"
    /\ chain.tokenMapRef # "none"
    /\ StrikeTokens(chain.tokenMapRef) \subseteq transport
    /\ Commit("frame",
          ResubscribeEffect(World([chain EXCEPT !.chainData = chain.chainDataRef])))

\* useOptionChain.js:388   a caller uses refetch, the fetchOptionChain of the
\* current render; no then-handler subscribes
Refetch ==
    /\ chain.mounted
    /\ chain.changes < MaxViewChanges
    /\ Commit("refetch",
          FetchOptionChain(World([SyncedRef(chain) EXCEPT !.changes = @ + 1]),
                           chain.params, FALSE))

\* the view is closed
HookUnmount ==
    /\ chain.mounted
    /\ Commit("unmount",
          EffectCleanup(World([chain EXCEPT !.mounted = FALSE, !.unmounted = TRUE])))

NextChain ==
    \/ \E p \in HookParams : HookMount(p)
    \/ \E p \in HookParams : SetParams(p)
    \/ ConnectionChanges
    \/ Refetch
    \/ \E i \in 1..(MaxViewChanges + 1), ok \in BOOLEAN : FetchOptionChainReply(i, ok)
    \/ SyncChainDataRef
    \/ ChainUpdateLoop
    \/ HookUnmount

\* the option-chain view's subscriptions
SpecChain == Init /\ [][NextChain]_vars

\* ------------------------------------------- order list view: actions

\* an error thrown by subscribe that only gets logged
ContinuesAfterSubscribe_OnlyOnSuccess(subOk) == subOk

\* part_000:697-701   the flow goes on to the snapshot fetch whether or not
\* subscribe threw
ContinuesAfterSubscribe(subOk) == TRUE

\* part_000:675-750   the subscription effect for a render whose
\* instrumentData holds the tokens ts: the previous cleanup, then the new
\* run; subOk tells whether the transport accepts the subscribe call
SubscriptionEffect(l, ts, subOk) ==
    LET cleaned == listSubs \ l.cleanupItems
        unsubs == IF l.cleanupItems # {} THEN 1 ELSE 0
    IN
    IF ts = {}
    THEN /\ orderList' = [l EXCEPT !.instrumentData = ts, !.orders = {}, !.cleanupItems = {}]
         /\ listFlows' = listFlows
         /\ listSubs' = cleaned
         /\ listLast' = [NoListEvent EXCEPT !.step = "effect", !.unsubscribeCalls = unsubs]
    ELSE /\ orderList' = [l EXCEPT !.instrumentData = ts, !.cleanupItems = ts]
         /\ listFlows' = Append(listFlows, [items |-> ts, pc |-> "subscribe", subOk |-> subOk])
         /\ listSubs' = IF subOk THEN cleaned \cup ts ELSE cleaned
         /\ listLast' = [NoListEvent EXCEPT !.step = "effect", !.items = ts, !.subOk = subOk,
                                            !.subscribeCalls = 1, !.unsubscribeCalls = unsubs]

\* the list view is opened; instrumentData starts empty (part_000:524)
ListMount ==
    /\ ~orderList.mounted /\ ~orderList.unmounted
    /\ SubscriptionEffect([orderList EXCEPT !.mounted = TRUE], {}, TRUE)
    /\ UNCHANGED <<orderVars, backendVars, loopVars, rowView, chain, chainFetches, transport, chainLast>>

\* part_000:578, 589, 593   setInstrumentData with a list of other tokens
SetInstrumentData(ts, subOk) ==
    /\ orderList.mounted
    /\ ts # orderList.instrumentData
    /\ orderList.changes < MaxListChanges
    /\ SubscriptionEffect([orderList EXCEPT !.changes = @ + 1], ts, subOk)
    /\ UNCHANGED <<orderVars, backendVars, loopVars, rowView, chain, chainFetches, transport, chainLast>>

\* part_000:697-712   the awaited subscribe settles; the snapshot is requested
SubscribeSettles(i) ==
    /\ i \in DOMAIN listFlows
    /\ listFlows[i].pc = "subscribe"
    /\ LET f == listFlows[i]
           goesOn == ContinuesAfterSubscribe(f.subOk)
       IN /\ listFlows' = IF goesOn THEN [listFlows EXCEPT ![i].pc = "snapshot"]
                          ELSE RemoveAt(listFlows, i)
          /\ orderList' = IF goesOn THEN [orderList EXCEPT !.polls = @ + 1]
                          ELSE IF ~orderList.mounted THEN orderList
                          ELSE [orderList EXCEPT !.orders = {}]
          /\ listLast' = [NoListEvent EXCEPT !.step = "subscribeSettled", !.items = f.items,
                                             !.subOk = f.subOk, !.logged = ~f.subOk,
                                             !.snapshotCalls = IF goesOn THEN 1 ELSE 0]
    /\ UNCHANGED <<orderVars, backendVars, loopVars, rowView, chain, chainFetches, transport, chainLast, listSubs>>

SnapshotReplies == {"ok", "notOk", "netErr"}

\* part_000:714-737   the snapshot request settles
SnapshotReply(i, r) ==
    /\ i \in DOMAIN listFlows
    /\ listFlows[i].pc = "snapshot"
    /\ LET f == listFlows[i]
       IN /\ listFlows' = RemoveAt(listFlows, i)
          /\ orderList' = IF orderList.mounted
                          THEN [orderList EXCEPT !.orders = IF r = "ok" THEN f.items ELSE {}]
                          ELSE orderList
          /\ listLast' = [NoListEvent EXCEPT !.step = "snapshot", !.items = f.items,
                                             !.subOk = f.subOk, !.reply = r]
    /\ UNCHANGED <<orderVars, backendVars, loopVars, rowView, chain, chainFetches, transport, chainLast, listSubs>>

\* the list view is closed: cleanup of the subscription effect
ListUnmount ==
    /\ orderList.mounted
    /\ orderList' = [orderList EXCEPT !.mounted = FALSE, !.unmounted = TRUE, !.cleanupItems = {}]
    /\ listSubs' = listSubs \ orderList.cleanupItems
    /\ listLast' = [NoListEvent EXCEPT !.step = "unmount",
                       !.unsubscribeCalls = IF orderList.cleanupItems # {} THEN 1 ELSE 0]
    /\ UNCHANGED <<orderVars, backendVars, loopVars, rowView, chain, chainFetches, transport, chainLast, listFlows>>

NextList ==
    \/ ListMount
    \/ \E ts \in SUBSET ListTokens, subOk \in BOOLEAN : SetInstrumentData(ts, subOk)
    \/ \E i \in 1..MaxListChanges : SubscribeSettles(i)
    \/ \E i \in 1..MaxListChanges, r \in SnapshotReplies : SnapshotReply(i, r)
    \/ ListUnmount

\* the order list's subscriptions and baseline snapshot
SpecList == Init /\ [][NextList]_vars

\* --------------------------------------- reconciliation loops: actions

\* ids handed out by requestAnimationFrame
NextFrameId(id) == (id % 3) + 1

\* useOptionChain.js:332, 373; part_000:794   the effect starts its loop
StartLoop(l) ==
    [l EXCEPT !.running = TRUE, !.lastUpdate = 0,
              !.pending = NextFrameId(l.pending),
              !.animationFrameId = NextFrameId(l.pending),
              !.firstId = NextFrameId(l.pending)]

\* the id of the first request instead of the latest
CancelledId_First(l) == l.firstId

\* useOptionChain.js:335, 376; part_000:795   the id the cleanup cancels
CancelledId(l) == l.animationFrameId

\* cleanup of the loop's effect
StopLoop(l) ==
    [l EXCEPT !.running = FALSE,
              !.pending = IF l.pending = CancelledId(l) THEN 0 ELSE @]

\* useOptionChain.js:264, 349; part_000:763
Throttled(name, l, timestamp) == timestamp - l.lastUpdate < THROTTLE_MS(name)

\* a loop that takes a tick only when its price is above the one shown
HasUpdates_OnlyRising(name, l, tick) ==
    IF name = "list" THEN tick # 0 /\ tick > l.shown
    ELSE tick > 0 /\ l.shown < tick

\* useOptionChain.js:289-296, 362-363; part_000:782-785   the loop found
\* something to publish
HasUpdates(name, l, tick) ==
    IF name = "list" THEN tick # 0
    ELSE tick > 0 /\ l.shown # tick

\* useOptionChain.js:262-329, 347-370; part_000:762-793   one run of the
\* loop's frame callback
LoopCallback(name, l, timestamp) ==
    LET tick == ticks[LoopToken(name)]
        publishes == ~Throttled(name, l, timestamp) /\ HasUpdates(name, l, tick)
        l1 == IF publishes
              THEN [l EXCEPT !.shown = tick, !.lastUpdate = timestamp,
                             !.lastPublish = timestamp]
              ELSE l
        l2 == [l1 EXCEPT !.pending = NextFrameId(l.pending),
                         !.animationFrameId = NextFrameId(l.pending)]
    IN
    \* useOptionChain.js:378   a new spotPrice runs the spot effect again
    IF publishes /\ name = "spot" /\ l.running THEN StartLoop(StopLoop(l2)) ELSE l2

\* what the callback did, for the loop as it was before the frame
LoopEvent(name, l, timestamp) ==
    LET tick == ticks[LoopToken(name)]
    IN [ ran |-> TRUE, afterTeardown |-> l.tornDown,
         skipped |-> Throttled(name, l, timestamp),
         published |-> ~Throttled(name, l, timestamp) /\ HasUpdates(name, l, tick),
         tick |-> tick, shownBefore |-> l.shown,
         sincePublish |-> IF l.lastPublish < 0 THEN -1 ELSE timestamp - l.lastPublish ]

\* the views are opened: the effects start their loops
StartLoops(view) ==
    /\ \E n \in LoopNames : LoopView(n) = view /\ ~loops[n].running /\ ~loops[n].tornDown
    /\ loops' = [n \in LoopNames |->
                    IF LoopView(n) = view THEN StartLoop(loops[n]) ELSE loops[n]]
    /\ loopLast' = [n \in LoopNames |-> NoLoopEvent]
    /\ UNCHANGED <<orderVars, backendVars, subVars, rowView, clock, ticks>>

\* the transport writes a tick into the TickStore
TickArrives(token, ltp) ==
    /\ ticks[token] # ltp
    /\ ticks' = [ticks EXCEPT ![token] = ltp]
    /\ loopLast' = [n \in LoopNames |-> NoLoopEvent]
    /\ UNCHANGED <<orderVars, backendVars, subVars, rowView, clock, loops>>

\* an animation frame: every pending frame callback runs with the frame's time
Frame(gap) ==
    /\ clock + gap <= MaxClock
    /\ \E n \in LoopNames : loops[n].pending # 0
    /\ clock' = clock + gap
    /\ loops' = [n \in LoopNames |->
                    IF loops[n].pending # 0
                    THEN LoopCallback(n, loops[n], clock') ELSE loops[n]]
    /\ loopLast' = [n \in LoopNames |->
                    IF loops[n].pending # 0
                    THEN LoopEvent(n, loops[n], clock') ELSE NoLoopEvent]
    /\ UNCHANGED <<orderVars, backendVars, subVars, rowView, ticks>>

\* the view is closed: cleanup of its loops' effects
Teardown(view) ==
    /\ \E n \in LoopNames : LoopView(n) = view /\ loops[n].running
    /\ loops' = [n \in LoopNames |->
                    IF LoopView(n) = view
                    THEN [StopLoop(loops[n]) EXCEPT !.tornDown = TRUE] ELSE loops[n]]
    /\ loopLast' = [n \in LoopNames |-> NoLoopEvent]
    /\ UNCHANGED <<orderVars, backendVars, subVars, rowView, clock, ticks>>

NextLoop ==
    \/ \E view \in {"option", "orders"} : StartLoops(view)
    \/ \E token \in LoopTokens, ltp \in LtpTicks : TickArrives(token, ltp)
    \/ \E gap \in FrameGaps : Frame(gap)
    \/ \E view \in {"option", "orders"} : Teardown(view)

\* the reconciliation loops of both views on one frame clock
SpecLoop == Init /\ [][NextLoop]_vars

\* The times a loop remembers, seen `gap` later with the clock's origin moved
\* on by `gap`: what matters of a remembered time is how long ago it was, and
\* every age of at least the loop's throttle interval passes its throttle
\* test alike; such a time is written 0.
Rebased(name, l, gap) ==
    [l EXCEPT !.lastUpdate = IF clock - (@ - gap) >= THROTTLE_MS(name) THEN 0 ELSE @ - gap,
              !.lastPublish = IF @ < 0 THEN @ ELSE 0]

\* an animation frame on a clock that never runs out: the frame of Frame(gap)
\* with the origin of time moved on by the gap, so the clock reads the same
FrameRebased(gap) ==
    /\ \E n \in LoopNames : loops[n].pending # 0
    /\ loops' = [n \in LoopNames |->
                    IF loops[n].pending # 0
                    THEN LoopCallback(n, Rebased(n, loops[n], gap), clock)
                    ELSE Rebased(n, loops[n], gap)]
    /\ loopLast' = [n \in LoopNames |->
                    IF loops[n].pending # 0
                    THEN LoopEvent(n, Rebased(n, loops[n], gap), clock) ELSE NoLoopEvent]
    /\ UNCHANGED <<orderVars, backendVars, subVars, rowView, clock, ticks>>

\* a view is opened while the other one is not on screen.  The loops of the
\* two views share nothing but the TickStore and the frame clock, and neither
\* is written by a loop.
StartLoopsAlone(view) ==
    /\ \A n \in LoopNames : LoopView(n) # view => ~loops[n].running
    /\ StartLoops(view)

NextLoopFair ==
    \/ \E view \in {"option", "orders"} : StartLoopsAlone(view)
    \/ \E token \in LoopTokens, ltp \in LtpTicks : TickArrives(token, ltp)
    \/ \E gap \in FrameGaps : FrameRebased(gap)
    \/ \E view \in {"option", "orders"} : Teardown(view)

\* the reconciliation loops over unbounded time; the browser keeps delivering
\* animation frames while a frame request is pending
SpecLoopFair ==
    Init /\ [][NextLoopFair]_vars /\ WF_vars(\E gap \in FrameGaps : FrameRebased(gap))

\* ------------------------------------------ order list rows: actions

\* part_000:812   { ...snapshot, ...tick }
Combined(snapshot, tick) ==
    [f \in DOMAIN snapshot \cup DOMAIN tick |->
        IF f \in DOMAIN tick THEN tick[f] ELSE snapshot[f]]

\* part_000:799-816   the merge effect: allData from instrumentData, orders
\* and liveTicks
MergeEffect(v) ==
    [v EXCEPT !.allData =
        [t \in DOMAIN v.instrumentData |->
            [ inst |-> v.instrumentData[t],
              snapshot |-> Combined(
                  IF t \in DOMAIN v.orders THEN v.orders[t] ELSE NoFields,
                  IF t \in DOMAIN v.liveTicks THEN v.liveTicks[t] ELSE NoFields) ]]]

\* part_000:889   Number(data.snapshot?.ltp ?? 0)
SnapshotLtp(data) == IF "ltp" \in DOMAIN data.snapshot THEN data.snapshot.ltp ELSE 0

\* part_000:895   Number(data.ltp ?? data.price ?? 0)
OrderLtp(inst) == IF "ltp" \in DOMAIN inst THEN inst.ltp ELSE inst.price

\* part_000:888-895   the price shown for a row of allData
DisplayLtp(data) ==
    IF data.inst.fromOptionChain /\ SnapshotLtp(data) = 0
    THEN data.inst.price
    ELSE IF SnapshotLtp(data) # 0 THEN SnapshotLtp(data) ELSE OrderLtp(data.inst)

\* part_000:55   the price the bottom window computes its P&L with, from the
\* selected row's merged snapshot (sheetData)
SheetLtp(data) == IF "ltp" \in DOMAIN data.snapshot THEN data.snapshot.ltp ELSE data.inst.price

\* part_000:519, in units of 0.01 percent
BROKERAGE_PERCENT_ON_ENTRY == 1

\* the P&L formulas applied to every price and quantity
CalculatePnLAndBrokerage_NoGuard(side, avgPrice, ltp, qty, rate, mode) ==
    LET entryValue == avgPrice * qty
        exitValue == ltp * qty
        grossPnl == IF side = "BUY" THEN exitValue - entryValue ELSE entryValue - exitValue
        brokerage == IF mode = "entry-only" THEN rate * entryValue
                     ELSE rate * (entryValue + exitValue)
    IN [ entryValue |-> entryValue, grossPnl |-> grossPnl,
         totalBrokerage |-> brokerage, netPnl |-> 10000 * grossPnl - brokerage ]

\* Utils/calculateBrokerage.jsx   P&L of a position; rate is the brokerage
\* per side in units of 0.01 percent, totalBrokerage and netPnl are in units
\* of 0.0001 of the money unit.  No price or no quantity gives a zero P&L.
CalculatePnLAndBrokerage(side, avgPrice, ltp, qty, rate, mode) ==
    IF ltp <= 0 \/ qty = 0
    THEN [ entryValue |-> avgPrice * qty, grossPnl |-> 0, totalBrokerage |-> 0, netPnl |-> 0 ]
    ELSE CalculatePnLAndBrokerage_NoGuard(side, avgPrice, ltp, qty, rate, mode)

\* part_000:897-915   P&L of a row of the list
RowPnL(data) ==
    CalculatePnLAndBrokerage(data.inst.side, data.inst.price, DisplayLtp(data),
                             data.inst.quantity, BROKERAGE_PERCENT_ON_ENTRY, "entry-only")

\* part_000:54-71   P&L shown by the bottom window for the selected row
SheetPnL(data) ==
    CalculatePnLAndBrokerage(data.inst.side, data.inst.price, SheetLtp(data),
                             data.inst.quantity, 1, "entry-only")

\* part_000:589, 675-679, 799-816   the order list is fetched: rows for the
\* tokens of insts; an empty list also clears the baselines
SetRows(insts) ==
    /\ insts # rowView.instrumentData
    /\ rowView' = MergeEffect([rowView EXCEPT
                       !.instrumentData = insts,
                       !.orders = IF insts = NoFields THEN NoFields ELSE @])
    /\ UNCHANGED <<orderVars, backendVars, subVars, loopVars>>

\* part_000:734, 799-816   the snapshot request of the current rows settles
SetOrders(snapshotMap) ==
    /\ rowView.instrumentData # NoFields
    /\ DOMAIN snapshotMap \subseteq DOMAIN rowView.instrumentData
    /\ rowView' = MergeEffect([rowView EXCEPT !.orders = snapshotMap])
    /\ UNCHANGED <<orderVars, backendVars, subVars, loopVars>>

\* part_000:773-791, 799-816   a due cycle of the loop finds the ticks
\* newTicks in the TickStore for the rows' tokens and publishes them
SetLiveTicks(newTicks) ==
    /\ newTicks # NoFields
    /\ DOMAIN newTicks \subseteq DOMAIN rowView.instrumentData
    /\ rowView' = MergeEffect([rowView EXCEPT !.liveTicks = newTicks])
    /\ UNCHANGED <<orderVars, backendVars, subVars, loopVars>>

NextRows ==
    \/ \E insts \in PartialMaps(RowOrders) : SetRows(insts)
    \/ \E snapshotMap \in PartialMaps(SnapshotInputs) : SetOrders(snapshotMap)
    \/ \E newTicks \in PartialMaps(TickInputs) : SetLiveTicks(newTicks)

\* the rows of the order list: baseline, live ticks and their merge
SpecRows == Init /\ [][NextRows]_vars

TypeOK ==
    /\ loader \in BOOLEAN /\ error \in BOOLEAN
    /\ fetchPending \in 0..(MaxAttempts + 2)
    /\ Len(closeTimers) \in 0..(MaxAttempts + 1)
    /\ started \in 0..(MaxAttempts + 1)
    /\ win.mounted = WindowRendered(selectedOrderData, loader, error)

\* ================================================================ claims

Failures == {"invalid", "fundsRejected", "fundsFailed", "failed"}
Ended == Failures \cup {"success"}
IsClick == started' = started + 1
SendsMutation(e) == e.mutCalls = 1

\* C1: while the in-flight flag is set, a click on an Adjust (OPEN, CLOSED,
\* HOLD) or price-save button is rejected locally: it starts no handler and
\* issues neither a funds query nor an order-mutation request.
C1_PendingClickRejected ==
    [][ (win.submitting /\ IsClick) =>
            /\ last'.ev = "rejected"
            /\ last'.fundsCalls = 0 /\ last'.mutCalls = 0
            /\ flows' = flows /\ win' = win /\ server' = server ]_vars

C1_Witness ==
    /\ last.ev = "rejected" /\ win.submitting
    /\ \E i \in DOMAIN flows : flows[i].pc = "mutation" /\ flows[i].live

\* C2: an Adjust->OPEN attempt whose SL/target validation fails issues no
\* network call at all, and one whose fund check rejects or whose funds
\* lookup fails issues no order-mutation request.
C2_ErrorsStayLocal ==
    /\ (last.kind = "OPEN" /\ last.validation = "failed")
         => last.ev = "invalid" /\ last.fundsCalls = 0 /\ last.mutCalls = 0
    /\ last.ev \in {"fundsRejected", "fundsFailed"}
         => last.mutCalls = 0 /\ last.payload = NoPayload

C2_Witness ==
    last.ev = "invalid" /\ last.kind = "OPEN" /\ last.add > 0

\* the rule of C3 as the claim states it
C3_Rule(side, sl, tgt, cp) ==
    IF cp > 0
    THEN IF side = "BUY"
         THEN (sl = 0 \/ sl < cp) /\ (tgt = 0 \/ tgt > cp)
         ELSE (sl = 0 \/ sl > cp) /\ (tgt = 0 \/ tgt < cp)
    ELSE TRUE

\* C3: an Adjust->OPEN attempt passes SL/target validation if and only if,
\* with currentPrice > 0, every nonzero level is on the right side of
\* currentPrice (BUY: stop_loss below, target above; SELL inverted; equality
\* rejected); with currentPrice <= 0 every attempt passes.
C3_ValidationRule ==
    (last.kind = "OPEN" /\ last.ev \in {"invalid", "fundsQuery", "sent"})
        => ((last.validation = "passed")
              <=> C3_Rule(last.order.side, last.slPrice, last.targetPrice, last.cp))

\* C4: with added lots > 0 the attempt queries the funds, computes
\* required = addedLots*lotSize*currentPrice and available from the funds of
\* the order's product (intraday: available_limit - used_limit; overnight:
\* available_limit), and is rejected with an error carrying both amounts if
\* and only if required > available; required = available is submitted.
C4_FundCheck ==
    /\ (last.kind = "OPEN" /\ last.ev \in {"fundsQuery", "sent"})
         => (last.ev = "fundsQuery" <=> last.add > 0)
    /\ last.ev \in {"fundsRejected", "fundsAccepted"} =>
         /\ last.add > 0
         /\ last.required = last.add * LotSize(last.order) * last.cp
         /\ last.available =
               IF last.order.product = "MIS"
               THEN last.fundsData.intraday.available_limit
                      - last.fundsData.intraday.used_limit
               ELSE last.fundsData.overnight.available_limit
         /\ (last.ev = "fundsRejected") <=> (last.required > last.available)
         /\ last.ev = "fundsRejected" =>
               /\ last.feedback.type = "error"
               /\ last.feedback.required = last.required
               /\ last.feedback.available = last.available
               /\ ~SendsMutation(last)
         /\ last.ev = "fundsAccepted" => SendsMutation(last)

C4_Witness ==
    last.ev = "fundsAccepted" /\ last.required = last.available /\ SendsMutation(last)

\* numerator and denominator of the weighted average as C5 states it
C5_Num(e) == e.order.quantity * e.order.price + (e.add * LotSize(e.order)) * e.cp
C5_Den(e) == e.order.quantity + e.add * LotSize(e.order)

\* C5: with lots added, the price submitted by Adjust->OPEN is the weighted
\* average (existingQty*existingAvg + addedQty*currentPrice)
\* / (existingQty + addedQty) of the recorded quantity and the added
\* quantity, here allowed the rounding to two decimals of the payload.
C5_WeightedAverage ==
    (last.ev = "fundsAccepted" /\ SendsMutation(last)) =>
        /\ 2 * last.payload.price * C5_Den(last) - C5_Den(last) <= 2 * C5_Num(last)
        /\ 2 * C5_Num(last) < 2 * last.payload.price * C5_Den(last) + C5_Den(last)

\* C6: a settled order mutation broadcasts 'orders:changed' exactly once if
\* it succeeded, carrying the order the service returned, and never
\* otherwise; nothing is broadcast before the service has answered.
C6_BroadcastOnSuccess ==
    /\ last.ev = "success" =>
         /\ last.bcasts = 1
         /\ last.bcastOrder = last.replyOrder
         /\ last.bcastOrder # NoOrder => last.bcastOrder = server[last.oid]
    /\ last.ev # "success" => last.bcasts = 0 /\ last.bcastOrder = NoOrder

C6_Witness ==
    last.ev = "success" /\ last.bcasts = 1 /\ last.bcastOrder = server[last.oid]

\* C7: a failed attempt (validation error, insufficient funds, failed funds
\* lookup, non-OK or success=false response) changes no order data held by
\* the view, broadcasts nothing and schedules no close; it only reports an
\* error.
C7_FailureChangesNothing ==
    [][ last'.ev \in Failures =>
            /\ UNCHANGED <<instrumentData, selectedOrderData, loader, error,
                           fetchPending, closeTimers, server>>
            /\ win'.mounted = win.mounted
            /\ win'.orderStatus = win.orderStatus
            /\ last'.bcasts = 0 /\ last'.timers = 0
            /\ last'.feedback.type = "error"
            /\ last'.live => win'.feedback = last'.feedback ]_vars

C7_Witness ==
    last.ev = "failed" /\ last.live /\ win.mounted /\ win.feedback.type = "error"

\* C8: the in-flight flag is set only while a handler of the window is
\* suspended at an await, and every way a handler ends (validation
\* rejection, insufficient funds, failed funds lookup, service error,
\* success) leaves it cleared; a failed handler is not run again.
C8_FlagCleared ==
    [][ /\ (win'.mounted /\ win'.submitting)
            => \E i \in DOMAIN flows' : flows'[i].live
        /\ (last'.ev \in Ended /\ last'.live /\ win'.mounted) => ~win'.submitting
        /\ (last'.ev \in Failures /\ ~IsClick) => Len(flows') = Len(flows) - 1
        /\ (last'.ev \in Failures /\ IsClick) => flows' = flows
        /\ last'.mutCalls <= 1 /\ last'.fundsCalls <= 1 ]_vars

C8_Witness ==
    last.ev = "fundsRejected" /\ last.live /\ win.mounted /\ ~win.submitting

\* C9: an Adjust->OPEN request is sent only for an order whose status is
\* OPEN.
C9_OpenOnlyFromOpen ==
    (last.kind = "OPEN" /\ SendsMutation(last)) => last.order.order_status = "OPEN"

\* C10 as stated: with a live price ltp > 0, the close price submitted by
\* Adjust->CLOSED is ltp - ltp*j/100 for BUY and ltp + ltp*j/100 for SELL.
C10_ExactClosePrice ==
    (last.kind = "CLOSED" /\ SendsMutation(last) /\ last.ltp > 0) =>
        100 * last.payload.closed_ltp =
            last.ltp * (IF last.order.side = "BUY"
                        THEN 10000 - last.order.jobbin_price
                        ELSE 10000 + last.order.jobbin_price)

\* the exact close price of C10, in units of 0.000001
C10_Exact(e) ==
    e.ltp * (IF e.order.side = "BUY"
             THEN 10000 - e.order.jobbin_price
             ELSE 10000 + e.order.jobbin_price)

\* C10 amended: that close price rounded to four decimals (a tie going up),
\* sent together with a close timestamp.
C10_RoundedClosePrice ==
    (last.kind = "CLOSED" /\ SendsMutation(last) /\ last.ltp > 0) =>
        /\ 200 * last.payload.closed_ltp - 100 <= 2 * C10_Exact(last)
        /\ 2 * C10_Exact(last) < 200 * last.payload.closed_ltp + 100
        /\ last.payload.closed_at = "now"
        /\ last.payload.order_status = "CLOSED"

C10_Witness ==
    /\ last.kind = "CLOSED" /\ SendsMutation(last) /\ last.ltp > 0
    /\ C10_Exact(last) % 100 # 0

\* C11: an Adjust->HOLD request carries order_status HOLD and none of the
\* fields lots, quantity, price or any other price field.
C11_HoldPayloadStatusOnly ==
    (last.kind = "HOLD" /\ SendsMutation(last)) =>
        /\ last.payload.order_status = "HOLD"
        /\ DOMAIN last.payload \cap {"lots", "quantity", "price", "closed_ltp"} = {}

\* C12: every Adjust->OPEN request has lots * lotSize = quantity in its
\* payload, and with no lots added its lots, quantity and price are the
\* order's recorded lots, quantity and average price.
C12_OpenPayloadConsistent ==
    (last.kind = "OPEN" /\ SendsMutation(last)) =>
        /\ last.payload.lots * LotSize(last.order) = last.payload.quantity
        /\ last.add = 0 =>
              /\ last.payload.lots = last.order.lots
              /\ last.payload.quantity = last.order.quantity
              /\ last.payload.price = last.order.price

\* C13: once every pending operation of the option-chain view has settled,
\* no token of a parameter set other than the current one is still
\* subscribed.
C13_OnlyCurrentSetActive ==
    (chain.mounted /\ chainFetches = <<>>) =>
        \A k \in ParamKeys \ {chain.params} : transport \cap TokensOf(k) = {}

\* C14: when a subscribe call for the tokens of one parameter set is issued,
\* no token of another parameter set is still subscribed: the unsubscribe of
\* the previous tokens came first.
C14_UnsubscribeBeforeSubscribe ==
    \A i \in DOMAIN chainLast.calls :
        chainLast.calls[i].op = "subscribe" =>
            \A k \in ParamKeys :
                chainLast.calls[i].tokens \subseteq TokensOf(k)
                    => chainLast.calls[i].active \subseteq TokensOf(k)

\* C15: once the view has settled after a reconnect, every strike token of
\* the displayed chain and its spot token are subscribed again.
C15_ResubscribedAfterReconnect ==
    (chain.mounted /\ chain.reconnected /\ chain.isConnected
        /\ chainFetches = <<>> /\ chain.chainData # "none") =>
        TokensOf(chain.chainData) \subseteq transport

\* C16: after teardown, once pending operations have settled, the view
\* holds no subscription.
C16_NothingHeldAfterTeardown ==
    (chain.unmounted /\ chainFetches = <<>>) => transport = {}

\* C17: a failed subscribe of the order list is logged and nothing more: the
\* snapshot is requested all the same, no subscribe is issued again, no
\* error state is raised, and a successful snapshot gives the rows their
\* baseline.
C17_SubscribeFailureNonFatal ==
    /\ (listLast.step = "subscribeSettled" /\ ~listLast.subOk) =>
          /\ listLast.logged
          /\ listLast.snapshotCalls = 1
          /\ listLast.subscribeCalls = 0
          /\ \E i \in DOMAIN listFlows :
                listFlows[i].items = listLast.items /\ listFlows[i].pc = "snapshot"
    /\ (listLast.step = "snapshot" /\ ~listLast.subOk /\ listLast.reply = "ok"
          /\ orderList.mounted) =>
          /\ orderList.orders = listLast.items
          /\ listLast.subscribeCalls = 0
    /\ orderList.mounted => ~error

C17_Witness ==
    /\ listLast.step = "snapshot" /\ ~listLast.subOk /\ listLast.reply = "ok"
    /\ orderList.mounted /\ orderList.instrumentData = listLast.items
    /\ orderList.orders = orderList.instrumentData
    /\ listSubs = {}

\* C18: a reconciliation loop publishes only when the TickStore value of an
\* active token differs from the value it published last.
C18_PublishOnlyOnChange ==
    \A n \in LoopNames :
        loopLast[n].published => loopLast[n].tick # loopLast[n].shownBefore

\* C19: once its view is torn down a loop holds no frame request, its
\* callback never runs again and it publishes nothing.
C19_NoFrameAfterTeardown ==
    \A n \in LoopNames :
        /\ loops[n].tornDown => loops[n].pending = 0
        /\ ~loopLast[n].afterTeardown
        /\ loops[n].running => loops[n].pending = loops[n].animationFrameId

C19_Witness ==
    /\ \A n \in LoopNames : loops[n].tornDown /\ loops[n].lastPublish > 0
    /\ \E t \in LoopTokens : ticks[t] = 2
    /\ clock > ClockStart + 40

\* C20: a loop's callback skips when less than the throttle interval has
\* passed since its last publish, so two publishes of a loop are at least
\* one throttle interval apart.
C20_ThrottleBetweenPublishes ==
    \A n \in LoopNames :
        (loopLast[n].ran /\ loopLast[n].sincePublish >= 0
            /\ loopLast[n].sincePublish < THROTTLE_MS(n))
          => loopLast[n].skipped /\ ~loopLast[n].published

\* the baseline and the tick of a row's token
C21_Base(t) == IF t \in DOMAIN rowView.orders THEN rowView.orders[t] ELSE NoFields
C21_Tick(t) == IF t \in DOMAIN rowView.liveTicks THEN rowView.liveTicks[t] ELSE NoFields

\* the fallback chain of C21, a source counting when it carries a price
C21_ChainAnyPrice(t, ref) ==
    IF "ltp" \in DOMAIN C21_Tick(t) THEN C21_Tick(t).ltp
    ELSE IF "ltp" \in DOMAIN C21_Base(t) THEN C21_Base(t).ltp
    ELSE ref

\* the same chain, a source counting when it carries a nonzero price
C21_ChainNonzeroPrice(t, ref) ==
    IF "ltp" \in DOMAIN C21_Tick(t) /\ C21_Tick(t).ltp # 0 THEN C21_Tick(t).ltp
    ELSE IF "ltp" \in DOMAIN C21_Base(t) /\ C21_Base(t).ltp # 0 THEN C21_Base(t).ltp
    ELSE ref

\* C21: the merged snapshot of every row takes each field from the tick when
\* the tick has it and from the baseline otherwise, and the price shown for
\* the row is the tick's price, else the baseline's price, else the order's
\* stored price (under either reading of when a source has a price, and with
\* either stored price of the order).
C21_MergeAndFallback ==
    \A t \in DOMAIN rowView.allData :
        LET d == rowView.allData[t]
        IN /\ DOMAIN d.snapshot = DOMAIN C21_Base(t) \cup DOMAIN C21_Tick(t)
           /\ \A f \in DOMAIN d.snapshot :
                 d.snapshot[f] = IF f \in DOMAIN C21_Tick(t)
                                 THEN C21_Tick(t)[f] ELSE C21_Base(t)[f]
           /\ DisplayLtp(d) \in
                 { C21_ChainAnyPrice(t, d.inst.price),
                   C21_ChainAnyPrice(t, OrderLtp(d.inst)),
                   C21_ChainNonzeroPrice(t, d.inst.price),
                   C21_ChainNonzeroPrice(t, OrderLtp(d.inst)) }

\* C22: when a tick without a price or with price zero is published for a
\* row whose merged snapshot shows a positive price, the row keeps showing
\* that price.
C22_ZeroTickKeepsPrice ==
    [][ \A t \in DOMAIN rowView.allData \cap DOMAIN rowView'.liveTicks :
            ( /\ rowView'.instrumentData = rowView.instrumentData
              /\ rowView'.orders = rowView.orders
              /\ SnapshotLtp(rowView.allData[t]) > 0
              /\ ~("ltp" \in DOMAIN rowView'.liveTicks[t] /\ rowView'.liveTicks[t].ltp > 0) )
            => DisplayLtp(rowView'.allData[t]) = DisplayLtp(rowView.allData[t]) ]_vars

C26_Modes == {"entry-only", "round-trip"}
C26_Rates == {1, 5}

\* C26: for every side, average price, brokerage rate and mode, the P&L of a
\* position whose current price is not positive or whose quantity is zero
\* has grossPnl = 0 and netPnl = 0, with the price the list shows for the row
\* as well as with the price the bottom window uses.
C26_ZeroPnlWithoutPrice ==
    \A t \in DOMAIN rowView.allData, rate \in C26_Rates, mode \in C26_Modes :
        LET d == rowView.allData[t]
        IN \A ltp \in {DisplayLtp(d), SheetLtp(d)} :
              LET pnl == CalculatePnLAndBrokerage(d.inst.side, d.inst.price, ltp,
                                                  d.inst.quantity, rate, mode)
              IN /\ (ltp <= 0 \/ d.inst.quantity = 0) => pnl.grossPnl = 0 /\ pnl.netPnl = 0
                 /\ (ltp = DisplayLtp(d) /\ rate = BROKERAGE_PERCENT_ON_ENTRY
                        /\ mode = "entry-only") => pnl = RowPnL(d)

C26_Witness ==
    \E t \in DOMAIN rowView.allData :
        LET d == rowView.allData[t]
        IN /\ SheetLtp(d) = 0 /\ d.inst.price > 0 /\ d.inst.quantity > 0
           /\ SheetPnL(d).netPnl = 0
           /\ t \in DOMAIN rowView.liveTicks

\* C23: a frame of the option-chain loop writes the tick of a token only
\* into the chain its token-to-position map was built from, and a row of the
\* order list is merged with the tick stored under its own token only.
C23_TickMatchesRow ==
    /\ chainLast.step = "frame" => chain.tokenMapRef = chain.chainDataRef
    /\ \A t \in DOMAIN rowView.allData :
          \A f \in DOMAIN C21_Tick(t) : rowView.allData[t].snapshot[f] = C21_Tick(t)[f]

\* C25: a fetch that completes after its view was torn down or after the
\* view's parameters or token set changed is ignored: the option-chain
\* completion issues no subscribe call, and the snapshot completion does not
\* become the baseline of the view's newer token set.
C25_StaleFetchIgnored ==
    /\ chainLast.step = "fetched" =>
          \A i \in DOMAIN chainLast.calls :
              chain.mounted /\ chainLast.calls[i].tokens \subseteq TokensOf(chain.params)
    /\ (listLast.step = "snapshot" /\ listLast.reply = "ok" /\ orderList.mounted
          /\ listLast.items # orderList.instrumentData)
          => orderList.orders # listLast.items

\* C24: a click on the price-save button with a missing, non-numeric or
\* negative input is rejected locally, with no call and the in-flight flag
\* untouched; every other input, 0 included, sends one mutation that
\* carries the order's id and the entered price and no other order field.
C24_PriceEdit ==
    [][ (IsClick /\ last'.kind = "PRICE" /\ last'.ev # "rejected") =>
          LET v == last'.editPriceInput
              bad == v[1] \in {"blank", "nan"} \/ v[2] < 0
          IN /\ bad => /\ last'.ev = "invalid"
                       /\ last'.mutCalls = 0 /\ last'.fundsCalls = 0
                       /\ flows' = flows /\ server' = server
                       /\ win'.submitting = win.submitting
             /\ ~bad => /\ last'.ev = "sent"
                        /\ last'.mutCalls = 1 /\ last'.fundsCalls = 0
                        /\ DOMAIN last'.payload = {"order_id", "price", "from"}
                        /\ last'.payload.order_id = selectedOrderData._id
                        /\ last'.payload.price = v[2]
                        /\ Len(flows') = Len(flows) + 1 ]_vars

C24_Witness ==
    /\ last.kind = "PRICE" /\ last.ev = "sent"
    /\ last.editPriceInput = Num(0) /\ last.payload.price = 0
    /\ last.order.price # 0

\* C27: between the opening of the order list and its teardown the snapshot
\* service is asked at most once.
C27_SnapshotPolledOnce ==
    orderList.polls <= 1

\* C28: within an Adjust->OPEN attempt the funds are queried only with lots
\* added and after the SL/target validation passed, and the mutation is sent
\* only after validation passed and, with lots added, after the funds reply
\* was accepted; with no lots added the funds are never queried.
C28_StepsOrdered ==
    /\ last.fundsCalls = 1 =>
          last.kind = "OPEN" /\ last.ev = "fundsQuery"
          /\ last.validation = "passed" /\ last.add > 0 /\ last.mutCalls = 0
    /\ (last.kind = "OPEN" /\ SendsMutation(last)) =>
          /\ last.validation = "passed"
          /\ last.add > 0 => last.ev = "fundsAccepted" /\ last.fundsData.ok
                             /\ last.required <= last.available
          /\ last.add = 0 => last.ev = "sent" /\ last.fundsCalls = 0
    /\ (last.kind = "OPEN" /\ last.add = 0) =>
          last.fundsCalls = 0 /\ last.ev \notin {"fundsQuery", "fundsAccepted",
                                                 "fundsRejected", "fundsFailed"}
    /\ \A i \in DOMAIN flows :
          flows[i].pc = "funds" => flows[i].kind = "OPEN" /\ flows[i].add > 0

C28_Witness ==
    /\ last.kind = "OPEN" /\ last.ev = "fundsAccepted" /\ SendsMutation(last)
    /\ last.slPrice # 0 /\ last.targetPrice # 0

\* C29: at most one order-mutation request per order is outstanding.
C29_OneMutationPerOrder ==
    \A id \in OrderIds :
        Cardinality({ i \in DOMAIN flows :
                        flows[i].oid = id /\ flows[i].pc = "mutation" }) <= 1

\* C30: the product submitted by an Adjust->OPEN request is the order's
\* product, the one the funds check of the attempt was made for.
C30_ProductUnchanged ==
    (last.kind = "OPEN" /\ SendsMutation(last)) =>
        /\ last.payload.product = last.order.product
        /\ ProductType([product |-> last.payload.product]) = last.productType

\* C31: an 'orders:changed' event carrying order X changes the selected order
\* only when the selected order is X; while another order Y is selected, no
\* field of Y, its id included, is overwritten.
C31_EventTouchesOnlyItsOrder ==
    [][ ( /\ last'.bcasts = 1
          /\ last'.bcastOrder # NoOrder
          /\ selectedOrderData # NoOrder
          /\ selectedOrderData._id # last'.bcastOrder._id )
        => selectedOrderData' = selectedOrderData ]_vars

\* C32: the delayed close set by a successful Adjust closes only the window of
\* the order that was adjusted; a window opened for another order in the
\* meantime stays open when the timer fires.
C32_TimerClosesOwnWindow ==
    [][ ( /\ closeTimers # <<>>
          /\ closeTimers' = Tail(closeTimers)
          /\ selectedOrderData # NoOrder
          /\ selectedOrderData._id # Head(closeTimers) )
        => selectedOrderData' = selectedOrderData ]_vars

\* C33: an EXIT or HOLD click that the disabled button does not turn away is
\* sent without validation and without a funds query, whatever the form holds
\* and whether or not a live price exists; without a live price its close
\* price is 0, never the order's stored price.
C33_ExitSentUnvalidated ==
    [][ (IsClick /\ last'.kind \in {"CLOSED", "HOLD"} /\ last'.ev # "rejected") =>
          /\ last'.ev = "sent" /\ SendsMutation(last')
          /\ last'.fundsCalls = 0 /\ last'.validation = "na"
          /\ Len(flows') = Len(flows) + 1
          /\ last'.payload.order_status = last'.kind
          /\ last'.ltp = 0 => last'.payload.closed_ltp = 0
          /\ last'.ltp > 0 => last'.payload.closed_ltp # 0 ]_vars

C33_Witness ==
    /\ last.kind = "CLOSED" /\ last.ev = "sent"
    /\ last.ltp = 0 /\ last.order.price > 0 /\ last.payload.closed_ltp = 0
    /\ ~SlTargetOk(last.order.side, last.slPrice, last.targetPrice, last.cp)

\* C34: whatever the Add Lot field holds, the number of added lots is a
\* non-negative integer, 0 for an empty or negative input, so an Adjust->OPEN
\* request never submits fewer lots than the order has.
C34_LotsNeverReduced ==
    [][ (IsClick /\ last'.kind = "OPEN" /\ last'.ev # "rejected") =>
          /\ last'.add >= 0
          /\ last'.addLotInput[1] = "blank" => last'.add = 0
          /\ (last'.addLotInput[1] = "num" /\ last'.addLotInput[2] < 0) => last'.add = 0
          /\ SendsMutation(last') => last'.payload.lots >= selectedOrderData.lots ]_vars

\* C35: once the TickStore holds, for the token of a running loop, a price
\* (positive, higher or lower than the one shown) that the row does not show,
\* then with animation frames kept coming the row comes to show that price,
\* unless the TickStore entry changes or the view is torn down first.
C35_TickEventuallyShown ==
    \A n \in LoopNames : \A v \in LtpTicks :
        (loops[n].running /\ ticks[LoopToken(n)] = v /\ loops[n].shown # v)
            ~> (loops[n].shown = v \/ ticks[LoopToken(n)] # v \/ ~loops[n].running)

C35_Witness ==
    \E n \in LoopNames :
        /\ loops[n].running /\ loopLast[n].published
        /\ loopLast[n].shownBefore > loopLast[n].tick
        /\ loops[n].shown = ticks[LoopToken(n)]

\* C37: a call of fetchOptionChain sends a request exactly when a name is
\* given and the call's key is not the recorded one; a failed fetch records
\* no key and clears the chain; an unsubscribe of subscribed strikes resets
\* the key; and no second request is sent for a key with no failed fetch of
\* it and no unsubscribe since the first.
C37_NoDuplicateFetch ==
    [][ /\ chainLast'.fetch.called =>
              (chainLast'.fetch.sent <=>
                  (chainLast'.fetch.key # NoName
                     /\ chainLast'.fetch.key # chainLast'.fetch.recorded))
        /\ chainLast'.step = "fetchFailed" =>
              /\ chain'.lastFetchParamsRef = chain.lastFetchParamsRef
              /\ chain.mounted => chain'.chainData = "none"
        /\ (\E i \in DOMAIN chainLast'.calls :
                /\ chainLast'.calls[i].op = "unsubscribe"
                /\ \E k \in ParamKeys : chainLast'.calls[i].tokens = StrikeTokens(k))
              => (chain'.lastFetchParamsRef = "none" \/ chainLast'.step = "fetched")
        /\ ~chain'.duplicate ]_vars

\* C36: a publish of the option-chain loop changes prices only: the chain on
\* display after the frame has the rows, in number, order and strikes, and
\* every field but ltp, of the chain on display before it, and the loop's
\* current chain stays the chain it was.
C36_PublishKeepsRows ==
    [][ chainLast'.step = "frame" =>
          /\ chain'.chainData = chain.chainData
          /\ chain'.chainDataRef = chain.chainDataRef ]_vars

\* ------------------------------------------------------ backend specifications

\* the option-chain endpoint serving one request after another
SpecEndpoint == Init /\ [][NextEndpoint]_vars

\* the quote functions called one after another
SpecQuote == Init /\ [][NextQuote]_vars

Asked(fn) == \E i \in 1..Len(endpoint.calls) : endpoint.calls[i].fn = fn

ServiceThrew == \E i \in 1..Len(endpoint.calls) : endpoint.calls[i].threw

====
